---- MODULE Spec2Model ----
(***************************************************************************)
(* Blockchain-from-scratch: the digital cash state machine                 *)
(* (src/src/c1_state_machine/p5_digital_cash.rs) and the header and block  *)
(* chains (src/src/c2_blockchain/p1_header_chain.rs,                       *)
(* p4_batched_extrinsics.rs, p6_rich_state.rs), proof of work              *)
(* (p3_consensus.rs) and fork choice (p5_fork_choice.rs).                  *)
(*                                                                         *)
(* DigitalCashSystem::next_state is a pure function from a ledger (State)  *)
(* and a CashTransaction to a ledger.  A behaviour of Spec builds a        *)
(* starting ledger, then applies next_state to it once; a behaviour of     *)
(* LedgerSpec starts from State::new() and applies it again and again.     *)
(* The arguments of the call stay in the state beside the ledger it        *)
(* returned, so that every property of a call is a state predicate.        *)
(*                                                                         *)
(* A behaviour of HeaderSpec builds a chain of headers on an anchor with   *)
(* child(), may overwrite a field of one header, and calls                 *)
(* verify_sub_chain or verify_child; a behaviour of BlockSpec does the     *)
(* same with the blocks of p4 and of p6.  A behaviour of MineSpec is one   *)
(* call of a mining function, a turn of its loop at a time; a behaviour of *)
(* ForkSpec gives a list of candidate chains to a fork-choice strategy.    *)
(* MineFairSpec is MineSpec with the digests of the headers the loop can   *)
(* form settled when the loop starts, and every nonce selected fairly.     *)
(*                                                                         *)
(* The ATM (p3_atm.rs) and the accounted currency                          *)
(* (p4_accounted_currency.rs) are state machines of the same trait: a      *)
(* behaviour of AtmSpec is one call of Atm::next_state on an ATM in any    *)
(* state, a behaviour of AtmSessionSpec a session of calls that starts     *)
(* Waiting, and a behaviour of AccountedSpec a history of Mint, Burn and   *)
(* Transfer from the empty map.  The ATM counts in decimal and has its own *)
(* scale of u64, 0..ATM_U64_MAX.                                           *)
(*                                                                         *)
(* u64 is scaled down to the range 0..U64_MAX; saturating and overflowing  *)
(* arithmetic is computed against that range.  `+= 1` on a counter at      *)
(* u64::MAX panics in a build with overflow checks and wraps to 0 in a     *)
(* build without: overflow_checks is the build.  When a call panics it     *)
(* returns nothing, and the ledger the caller holds is the one it passed.  *)
(***************************************************************************)
EXTENDS Integers, Sequences, FiniteSets, TLC

VARIABLES
    starting_state,   \* the ledger next_state is applied to
    transition,       \* the CashTransaction it is applied with
    new_state,        \* the ledger held now: what the call returned
    printed,          \* what the call wrote with println! ("" if nothing)
    panicked,         \* TRUE iff the call aborted on an arithmetic overflow
    overflow_checks,  \* the build profile: TRUE = overflow checks on (debug)
    pc,               \* "idle": before the call; "returned": after it
    serials_assigned, \* the serials that bills were given before the call
    variant,          \* the module whose Header is in use: "p1", "p4" or "p6"
    chain,            \* the anchor header, then the headers built on it
    hashes,           \* the digests crate::hash has given so far
    child_args,       \* the arguments of the last call of child
    tampered,         \* which header of chain was overwritten, and where
    is_verified,      \* what verify_sub_chain returned
    post_states,      \* p6: the state after each block, as its caller keeps it
    strategy,         \* the ForkChoice implementation in use
    candidate_chains, \* the chains the fork choice is given
    choice            \* what first_chain_is_better and best_chain gave

vars ==
    <<starting_state, transition, new_state, printed, panicked, overflow_checks, pc,
      serials_assigned, variant, chain, hashes, child_args, tampered, is_verified,
      post_states, strategy, candidate_chains, choice>>

\* The variables of the ledger, and those of the header chains.
ledger_vars == <<starting_state, transition, new_state, printed, serials_assigned>>

chain_vars == <<variant, chain, hashes, child_args, tampered, is_verified, post_states>>

fork_vars == <<strategy, candidate_chains, choice>>

\* ------------------------------------------------------------------ bounds

\* u64::MAX, scaled down
U64_MAX == 3
\* The ledgers explored hold at most MaxBills bills.
MaxBills == 2
\* The longest spends and receives lists a Transfer is given.
MaxSpends == 2
MaxReceives == 2

\* ------------------------------------------------------------------- types

Users == {"Alice", "Bob", "Charlie"}

U64 == 0..U64_MAX

Bill(owner, amount, serial) == [owner |-> owner, amount |-> amount, serial |-> serial]

\* u64::saturating_add
saturating_add(a, b) == IF a + b > U64_MAX THEN U64_MAX ELSE a + b

\* The decrement of total_spends left out: the total stays as it is.
saturating_sub_left_out(a, b) == a

\* u64::saturating_sub
saturating_sub(a, b) == IF a < b THEN 0 ELSE a - b

\* ------------------------------------------------------------------- State

\* State::new
new == [bills |-> {}, next_serial |-> 0]

\* `self.next_serial += 1` overflows exactly when the counter is u64::MAX.
increment_overflows(self) == self.next_serial = U64_MAX

\* State::increment_serial, where it returns: the counter plus one, wrapped
\* to the width of u64 (the value a build without overflow checks stores).
increment_serial(self) ==
    [self EXCEPT !.next_serial = (self.next_serial + 1) % (U64_MAX + 1)]

\* add_bill as it would be without the call of increment_serial.
add_bill_without_increment(self, elem) ==
    [self EXCEPT !.bills = self.bills \cup {elem}]

\* State::add_bill: insert the bill as given, then increment the counter.
add_bill(self, elem) ==
    increment_serial([self EXCEPT !.bills = self.bills \cup {elem}])

\* ------------------------------------------------------- CashTransaction

Mint(minter, amount) == [kind |-> "Mint", minter |-> minter, amount |-> amount]

Transfer(spends, receives) ==
    [kind |-> "Transfer", spends |-> spends, receives |-> receives]

\* ---------------------------------------------------- the transfer closure

spend_id == "spend"

receive_id == "receive"

\* The locals of transfer_process as it starts, around the clone it mutates.
transfer_locals(state) ==
    [new_state      |-> state,
     visited_serial |-> {},
     total_spends   |-> 0,
     total_receives |-> 0,
     err            |-> "",
     panicked       |-> FALSE]

\* The receive-side serial test with the receive half left out.
serial_seen_in_spends_only(visited_serial, serial) ==
    <<"spend", serial>> \in visited_serial

\* The receive-side serial test: the serial was seen among the spends or
\* among the earlier receives.
serial_already_seen(visited_serial, serial) ==
    \/ <<spend_id, serial>> \in visited_serial
    \/ <<receive_id, serial>> \in visited_serial

\* The spending limit test with the comparison turned around.
spending_limit_inverted(amount, total_spends) == amount < total_spends

\* The spending limit test of one receive.
spending_limit_exceeded(amount, total_spends) == amount > total_spends

\* The test after the receives loop, made on a total that is never 0.
output_of_zero_value_off_by_one(total_receives) == total_receives + 1 = 0

\* The test after the receives loop.
output_of_zero_value(total_receives) == total_receives = 0

\* `for bill in spends`, from the i-th bill on; stops at the first Err.
RECURSIVE spends_loop(_, _, _)
spends_loop(l, spends, i) ==
    IF i > Len(spends) THEN l
    ELSE LET bill == spends[i] IN
         IF bill \notin l.new_state.bills
         THEN [l EXCEPT !.err = "Bill does not exist."]
         ELSE IF <<spend_id, bill.serial>> \in l.visited_serial
         THEN [l EXCEPT !.err = "Invalid serial number."]
         ELSE spends_loop(
                [l EXCEPT !.visited_serial = @ \cup {<<spend_id, bill.serial>>},
                          !.new_state.bills = @ \ {bill},
                          !.total_spends = saturating_add(@, bill.amount)],
                spends, i + 1)

\* `for bill in receives`, from the i-th bill on; stops at the first Err, and
\* at an overflowing increment of the counter when the build checks overflow.
RECURSIVE receives_loop(_, _, _, _)
receives_loop(l, receives, i, checks) ==
    IF i > Len(receives) THEN l
    ELSE LET bill == receives[i] IN
         IF bill.serial = U64_MAX
         THEN [l EXCEPT !.err = "Invalid serial number with overflow."]
         ELSE IF serial_already_seen(l.visited_serial, bill.serial)
         THEN [l EXCEPT !.err = "Spend and receive bills cannot be same"]
         ELSE IF spending_limit_exceeded(bill.amount, l.total_spends)
         THEN [l EXCEPT !.err = "Spending limit exceeded."]
         ELSE IF checks /\ increment_overflows(l.new_state)
         THEN [l EXCEPT !.panicked = TRUE]
         ELSE receives_loop(
                [l EXCEPT !.visited_serial = @ \cup {<<receive_id, bill.serial>>},
                          !.total_receives = saturating_add(@, bill.amount),
                          !.total_spends = saturating_sub(@, bill.amount),
                          !.new_state = add_bill(@, bill)],
                receives, i + 1, checks)

\* The closure transfer_process: the locals when it returns or aborts; err is
\* "" exactly when it returns Ok(()).
transfer_process(state, spends, receives, checks) ==
    LET s == spends_loop(transfer_locals(state), spends, 1) IN
    IF s.err # "" THEN s
    ELSE LET r == receives_loop(s, receives, 1, checks) IN
         IF r.err # "" \/ r.panicked THEN r
         ELSE IF output_of_zero_value(r.total_receives)
         THEN [r EXCEPT !.err = "Output of 0 value"]
         ELSE r

\* ------------------------------------------- DigitalCashSystem::next_state

\* What a call comes to: the ledger it returns, what it printed, and whether
\* it aborted instead of returning (then `state` is the untouched argument).
Returned(state) == [state |-> state, printed |-> "", panicked |-> FALSE]

Rejected(state, err) == [state |-> state, printed |-> err, panicked |-> FALSE]

Aborted(state) == [state |-> state, printed |-> "", panicked |-> TRUE]

mint_arm(state, minter, amount, checks) ==
    LET new_bill == Bill(minter, amount, state.next_serial) IN
    IF checks /\ increment_overflows(state)
    THEN Aborted(state)
    ELSE Returned(add_bill(state, new_bill))

\* transfer_arm without its first test: an empty spends list falls through to
\* the test of the receives list and to the closure.
transfer_arm_spends_not_tested(state, spends, receives, checks) ==
    IF receives = <<>> THEN Returned([state EXCEPT !.bills = {}])
    ELSE LET l == transfer_process(state, spends, receives, checks) IN
         IF l.panicked THEN Aborted(state)
         ELSE IF l.err = "" THEN Returned(l.new_state)
         ELSE Rejected(state, l.err)

\* The Transfer arm of next_state.
transfer_arm(state, spends, receives, checks) ==
    IF spends = <<>> THEN Returned(state)
    ELSE IF receives = <<>> THEN Returned([state EXCEPT !.bills = {}])
    ELSE LET l == transfer_process(state, spends, receives, checks) IN
         IF l.panicked THEN Aborted(state)
         ELSE IF l.err = "" THEN Returned(l.new_state)
         ELSE Rejected(state, l.err)

next_state(state, t, checks) ==
    IF t.kind = "Mint"
    THEN mint_arm(state, t.minter, t.amount, checks)
    ELSE transfer_arm(state, t.spends, t.receives, checks)

\* ----------------------------------------------- building a starting state

\* State::set_serial
set_serial(self, serial) == [self EXCEPT !.next_serial = serial]

\* FromIterator<Bill> for State (and From<[Bill; N]>): add_bill on every
\* bill of the list, from State::new().  The lists used here are shorter
\* than u64::MAX, so the counter does not overflow while building.
RECURSIVE from_iter(_)
from_iter(iter) ==
    IF iter = <<>> THEN new
    ELSE add_bill(from_iter(SubSeq(iter, 1, Len(iter) - 1)), iter[Len(iter)])

\* ------------------------------------------------------------ the inputs

\* Every list over S of at most n elements.
SeqUpTo(S, n) == UNION {[1..k -> S] : k \in 0..n}

\* The bills the starting ledgers are built from: two owners, a unit bill
\* and a bill of the largest amount, and two bills that share a serial.
StartBills ==
    {Bill("Alice", 1, 0), Bill("Bob", 1, 1), Bill("Bob", U64_MAX, 2), Bill("Alice", 1, 2)}

\* A bill no starting ledger holds (it differs from one of them in its owner
\* only): the material of the spends that name a bill that does not exist.
ForgedBills == {Bill("Charlie", 1, 0)}

SpendChoices(state) == state.bills \cup ForgedBills

\* The receive entries: nothing, a unit and the largest amount, under two
\* serials that some starting bills carry and others do not, and one entry
\* that declares u64::MAX.
ReceiveChoices ==
    {Bill("Bob", a, s) : a \in {0, 1, U64_MAX}, s \in {1, 2}}
        \cup {Bill("Bob", 1, U64_MAX)}

\* ------------------------------------------------------------- the driver

NoTransition == [kind |-> "None"]

\* The serials a set of bills carries.
Serials(bills) == {b.serial : b \in bills}

\* No header chain is in use.
NoHashes == [words \in {} |-> 0]

NoArgs == <<>>

NoTamper == [at |-> 0, field |-> "none"]

NoChain ==
    /\ variant = "none"
    /\ chain = <<>>
    /\ hashes = NoHashes
    /\ child_args = NoArgs
    /\ tampered = NoTamper
    /\ is_verified = TRUE
    /\ post_states = <<>>

\* No ledger is in use.
NoLedger ==
    /\ starting_state = new
    /\ new_state = new
    /\ transition = NoTransition
    /\ printed = ""
    /\ serials_assigned = {}

\* No fork choice is in use.
NoChoice ==
    [first_called |-> FALSE, first_chain_is_better |-> FALSE,
     best_called  |-> FALSE, best_chain |-> 0]

NoFork ==
    /\ strategy = "none"
    /\ candidate_chains = <<>>
    /\ choice = NoChoice

\* A starting state as the tests build theirs: State::from([...]), which
\* leaves the counter at the number of bills added, then possibly set_serial
\* to move the counter ahead; no call of next_state yet.
Init ==
    /\ \E iter \in SeqUpTo(StartBills, MaxBills) :
          \E serial \in from_iter(iter).next_serial..U64_MAX :
             new_state = set_serial(from_iter(iter), serial)
    /\ starting_state = new_state
    /\ transition = NoTransition
    /\ printed = ""
    /\ panicked = FALSE
    /\ overflow_checks \in BOOLEAN
    /\ pc = "idle"
    /\ serials_assigned = Serials(new_state.bills)
    /\ NoChain
    /\ NoFork

\* One call: let end = next_state(&start, &t).
Apply(t) ==
    LET r == next_state(new_state, t, overflow_checks) IN
    /\ starting_state' = new_state
    /\ transition' = t
    /\ new_state' = r.state
    /\ printed' = r.printed
    /\ panicked' = r.panicked
    /\ pc' = "returned"
    /\ serials_assigned' =
          serials_assigned \cup Serials(new_state.bills \ starting_state.bills)
    /\ UNCHANGED overflow_checks
    /\ UNCHANGED <<chain_vars, fork_vars>>

MintStep ==
    /\ pc = "idle"
    /\ \E minter \in Users, amount \in U64 : Apply(Mint(minter, amount))

TransferStep ==
    /\ pc = "idle"
    /\ \E spends \in SeqUpTo(SpendChoices(new_state), MaxSpends),
          receives \in SeqUpTo(ReceiveChoices, MaxReceives) :
           Apply(Transfer(spends, receives))

Next == MintStep \/ TransferStep

Spec == Init /\ [][Next]_vars

\* ------------------------------------------- a ledger and its whole history

\* The inputs of the calls made one after the other on one ledger.
LedgerMinters == {"Alice", "Bob"}

LedgerAmounts == {1}

\* The receive entries of those calls: one owner and amount, every serial
\* of the domain (u64::MAX among them).
LedgerReceives == {Bill("Charlie", 1, s) : s \in U64}

\* The longest spends and receives lists of those calls.
MaxLedgerSpends == 1
MaxLedgerReceives == 1

\* let mut state = State::new(): the empty ledger, no call yet.
LedgerInit ==
    /\ new_state = new
    /\ starting_state = new
    /\ transition = NoTransition
    /\ printed = ""
    /\ panicked = FALSE
    /\ overflow_checks \in BOOLEAN
    /\ pc = "idle"
    /\ serials_assigned = {}
    /\ NoChain
    /\ NoFork

\* state = next_state(&state, &t) on the ledger the call before returned; a
\* call that aborted is the last one.  Only ledgers of at most MaxBills bills
\* are followed.
LedgerMint ==
    /\ ~panicked
    /\ \E minter \in LedgerMinters, amount \in LedgerAmounts :
          Apply(Mint(minter, amount))
    /\ Cardinality(new_state'.bills) <= MaxBills

LedgerTransfer ==
    /\ ~panicked
    /\ \E spends \in SeqUpTo(new_state.bills, MaxLedgerSpends),
          receives \in SeqUpTo(LedgerReceives, MaxLedgerReceives) :
           Apply(Transfer(spends, receives))
    /\ Cardinality(new_state'.bills) <= MaxBills

LedgerNext == LedgerMint \/ LedgerTransfer

LedgerSpec == LedgerInit /\ [][LedgerNext]_vars

\* ------------------------------------------------------------- crate::hash

\* hash(t) runs t's Hash implementation over a DefaultHasher and returns the
\* u64 it finishes with.  The derived implementations feed the hasher the
\* fields of a struct in order, each u64 as one word, a unit field as nothing.
\* What the hasher makes of a stream of words is not computed here: it is a
\* function of the stream, and each stream gets its digest, any u64, when it
\* is first hashed.  H is the table of the digests given so far.
hash(H, words) == H[words]

\* The tables that keep H and give a digest to every stream of `need`.
HashTables(H, need) == {H @@ f : f \in [need \ DOMAIN H -> U64]}

\* ------------------------------------------------------------ the headers

Variants == {"p1", "p4", "p6"}

\* p1_header_chain::Header; its other three fields are of type ().
p1_Header(parent, height) == [parent |-> parent, height |-> height]

\* p4_batched_extrinsics::Header
p4_Header(parent, height, extrinsics_root, state, consensus_digest) ==
    [parent |-> parent, height |-> height, extrinsics_root |-> extrinsics_root,
     state |-> state, consensus_digest |-> consensus_digest]

\* p6_rich_state::Header
p6_Header(parent, height, extrinsics_root, state_root, consensus_digest) ==
    [parent |-> parent, height |-> height, extrinsics_root |-> extrinsics_root,
     state_root |-> state_root, consensus_digest |-> consensus_digest]

\* #[derive(Hash)] on each Header: the words it feeds the hasher.
p1_words(h) == <<h.parent, h.height>>

p4_words(h) == <<h.parent, h.height, h.extrinsics_root, h.state, h.consensus_digest>>

p6_words(h) == <<h.parent, h.height, h.extrinsics_root, h.state_root, h.consensus_digest>>

Header_words(v, h) ==
    CASE v = "p1" -> p1_words(h)
      [] v = "p4" -> p4_words(h)
      [] v = "p6" -> p6_words(h)

\* Header::genesis of each module; only p6's takes an argument, the genesis
\* state root.
p1_genesis == p1_Header(0, 0)

p4_genesis == p4_Header(0, 0, 0, 0, 0)

p6_genesis(genesis_state_root) == p6_Header(0, 0, 0, genesis_state_root, 0)

Header_genesis(v, genesis_state_root) ==
    CASE v = "p1" -> p1_genesis
      [] v = "p4" -> p4_genesis
      [] v = "p6" -> p6_genesis(genesis_state_root)

\* `self.height + 1` overflows exactly when the height is u64::MAX.
height_overflows(self) == self.height = U64_MAX

\* The height of a child left at its parent's.
child_height_unchanged(self) == self.height

\* The height a child gets, wrapped to the width of u64 (the value a build
\* without overflow checks stores).
child_height(self) == (self.height + 1) % (U64_MAX + 1)

\* p1 Header::child with the parent digest left at 0.
p1_child_unlinked(H, self) == p1_Header(0, child_height(self))

\* Header::child of each module, where it returns.
p1_child(H, self) == p1_Header(hash(H, p1_words(self)), child_height(self))

p4_child(H, self, extrinsics_root, state) ==
    p4_Header(hash(H, p4_words(self)), child_height(self), extrinsics_root, state, 0)

p6_child(H, self, extrinsics_root, state_root) ==
    p6_Header(hash(H, p6_words(self)), child_height(self), extrinsics_root, state_root, 0)

\* args is <<>> in p1 and <<extrinsics_root, state>> or
\* <<extrinsics_root, state_root>> in p4 and p6.
Header_child(v, H, self, args) ==
    CASE v = "p1" -> p1_child(H, self)
      [] v = "p4" -> p4_child(H, self, args[1], args[2])
      [] v = "p6" -> p6_child(H, self, args[1], args[2])

\* The height test of verification with the comparison left out.
height_never_tested(parent_height, child_height_) == FALSE

\* The height test of verification: the child is not one above its parent.
height_mismatch(parent_height, child_height_) ==
    saturating_add(parent_height, 1) # child_height_

\* p1 Header::verify_sub_chain, the loop from the i-th header of chain on.
RECURSIVE p1_verify_loop(_, _, _, _, _, _)
p1_verify_loop(H, chain_, i, curr_hash, curr_height, verified) ==
    IF i > Len(chain_) THEN verified
    ELSE LET header == chain_[i] IN
         IF height_mismatch(curr_height, header.height) THEN FALSE
         ELSE p1_verify_loop(H, chain_, i + 1,
                             hash(H, p1_words(header)), header.height,
                             verified /\ curr_hash = header.parent)

\* p4 Header::verify_child
p4_verify_child(H, self, child) ==
    IF height_mismatch(self.height, child.height) THEN FALSE
    ELSE hash(H, p4_words(self)) = child.parent /\ self.state = child.state

\* p4 Header::verify_sub_chain, the loop from the i-th header of chain on.
RECURSIVE p4_verify_loop(_, _, _, _, _)
p4_verify_loop(H, chain_, i, prev_header, verified) ==
    IF i > Len(chain_) THEN verified
    ELSE LET header == chain_[i] IN
         IF height_mismatch(prev_header.height, header.height) THEN FALSE
         ELSE p4_verify_loop(H, chain_, i + 1, header,
                             verified /\ hash(H, p4_words(prev_header)) = header.parent
                                      /\ prev_header.state = header.state)

\* p6 Header::verify_child
p6_verify_child(H, self, child) ==
    /\ hash(H, p6_words(self)) = child.parent
    /\ ~height_mismatch(self.height, child.height)

\* p6 Header::verify_sub_chain, the loop from the i-th header of chain on.
RECURSIVE p6_verify_loop(_, _, _, _, _)
p6_verify_loop(H, chain_, i, parent_header, verified) ==
    IF i > Len(chain_) THEN verified
    ELSE p6_verify_loop(H, chain_, i + 1, chain_[i],
                        verified /\ p6_verify_child(H, parent_header, chain_[i]))

\* Header::verify_sub_chain of each module.
p1_verify_sub_chain(H, self, chain_) ==
    p1_verify_loop(H, chain_, 1, hash(H, p1_words(self)), self.height, TRUE)

p4_verify_sub_chain(H, self, chain_) == p4_verify_loop(H, chain_, 1, self, TRUE)

p6_verify_sub_chain(H, self, chain_) == p6_verify_loop(H, chain_, 1, self, TRUE)

Header_verify_sub_chain(v, H, self, chain_) ==
    CASE v = "p1" -> p1_verify_sub_chain(H, self, chain_)
      [] v = "p4" -> p4_verify_sub_chain(H, self, chain_)
      [] v = "p6" -> p6_verify_sub_chain(H, self, chain_)

\* Header::verify_child of the modules that have it.
Header_verify_child(v, H, self, child) ==
    CASE v = "p4" -> p4_verify_child(H, self, child)
      [] v = "p6" -> p6_verify_child(H, self, child)

\* ------------------------------------------------- building header chains

\* The most headers built on an anchor.
MaxChildren == 2

\* The anchors besides genesis: a header in the middle of a chain and one at
\* the largest height.
Anchors(v) ==
    CASE v = "p1" -> {p1_genesis, p1_Header(1, 1), p1_Header(2, U64_MAX)}
      [] v = "p4" -> {p4_genesis, p4_Header(1, 1, 1, 1, 0), p4_Header(2, U64_MAX, 0, 1, 0)}
      [] v = "p6" -> {p6_genesis(0), p6_genesis(1), p6_Header(2, U64_MAX, 0, 1, 0)}

\* The arguments child is given: none in p1, a root and a state in p4, p6.
ChildArgs(v) ==
    IF v = "p1" THEN {NoArgs} ELSE {<<1, 0>>, <<2, 1>>}

\* The fields a test overwrites in a header it built.
TamperFields == {"parent", "height"}

\* The words verify_sub_chain hashes at most: those of the anchor and of the
\* headers of the chain, the last one only in p1 (p4 and p6 hash a header
\* when they come to its child).
ChainWords(v, headers) ==
    {Header_words(v, headers[i]) :
        i \in 1..(IF v = "p1" THEN Len(headers) ELSE Len(headers) - 1)}

\* let g = Header::genesis(), or a header taken as the anchor.
HeaderInit ==
    /\ variant \in Variants
    /\ \E anchor \in Anchors(variant) : chain = <<anchor>>
    /\ hashes = NoHashes
    /\ child_args = NoArgs
    /\ tampered = NoTamper
    /\ is_verified = TRUE
    /\ post_states = <<>>
    /\ NoFork
    /\ overflow_checks \in BOOLEAN
    /\ panicked = FALSE
    /\ pc = "building"
    /\ starting_state = new
    /\ new_state = new
    /\ transition = NoTransition
    /\ printed = ""
    /\ serials_assigned = {}

\* let b = tip.child(..), pushed onto the chain; the call aborts when the
\* height overflows in a build with overflow checks.
HeaderChild ==
    /\ pc = "building"
    /\ tampered = NoTamper
    /\ Len(chain) <= MaxChildren
    /\ LET self == chain[Len(chain)] IN
       \E args \in ChildArgs(variant) :
          \E H \in HashTables(hashes, {Header_words(variant, self)}) :
             /\ hashes' = H
             /\ child_args' = args
             /\ IF overflow_checks /\ height_overflows(self)
                THEN /\ panicked' = TRUE
                     /\ pc' = "aborted"
                     /\ UNCHANGED chain
                ELSE /\ chain' = Append(chain, Header_child(variant, H, self, args))
                     /\ UNCHANGED <<panicked, pc>>
    /\ UNCHANGED <<tampered, is_verified, variant, overflow_checks, post_states>>
    /\ UNCHANGED <<ledger_vars, fork_vars>>

\* b.parent = v or b.height = v on one header of the suffix, v another value
\* than the field holds.
HeaderTamper ==
    /\ pc = "building"
    /\ tampered = NoTamper
    /\ \E at \in 2..Len(chain), field \in TamperFields, value \in U64 :
          /\ chain[at][field] # value
          /\ chain' = [chain EXCEPT ![at][field] = value]
          /\ tampered' = [at |-> at, field |-> field]
    /\ UNCHANGED <<hashes, child_args, is_verified, variant, overflow_checks, panicked, pc,
                   post_states>>
    /\ UNCHANGED <<ledger_vars, fork_vars>>

\* chain[0].verify_sub_chain(&chain[1..])
HeaderVerify ==
    /\ pc = "building"
    /\ \E H \in HashTables(hashes, ChainWords(variant, chain)) :
          /\ hashes' = H
          /\ is_verified' = Header_verify_sub_chain(variant, H, chain[1], Tail(chain))
    /\ pc' = "verified"
    /\ UNCHANGED <<chain, child_args, tampered, variant, overflow_checks, panicked,
                   post_states>>
    /\ UNCHANGED <<ledger_vars, fork_vars>>

\* parent.verify_child(&child) on the last two headers of the chain.
HeaderVerifyChild ==
    /\ pc = "building"
    /\ variant \in {"p4", "p6"}
    /\ Len(chain) >= 2
    /\ LET self == chain[Len(chain) - 1] IN
       \E H \in HashTables(hashes, {Header_words(variant, self)}) :
          /\ hashes' = H
          /\ is_verified' = Header_verify_child(variant, H, self, chain[Len(chain)])
    /\ pc' = "child verified"
    /\ UNCHANGED <<chain, child_args, tampered, variant, overflow_checks, panicked,
                   post_states>>
    /\ UNCHANGED <<ledger_vars, fork_vars>>

HeaderNext == HeaderChild \/ HeaderTamper \/ HeaderVerify \/ HeaderVerifyChild

HeaderSpec == HeaderInit /\ [][HeaderNext]_vars

\* ------------------------------------------- p4_batched_extrinsics::Block

\* a + b as u64 arithmetic stores it without overflow checks, and whether
\* it overflows.
wrapping_add(a, b) == (a + b) % (U64_MAX + 1)

add_overflows(a, b) == a + b > U64_MAX

p4_Block(header, body) == [header |-> header, body |-> body]

\* Hash for Vec<u64>: the length, then the elements.
body_words(body) == <<Len(body)>> \o body

\* Block::genesis
p4_Block_genesis == p4_Block(p4_genesis, <<>>)

\* Block::execute_extrinsics: `state += extrinsic` over the batch, from 0;
\* the sum as stored without overflow checks, and whether a step overflowed.
RECURSIVE p4_execute_extrinsics(_)
p4_execute_extrinsics(extrinsics) ==
    IF extrinsics = <<>> THEN [state |-> 0, overflowed |-> FALSE]
    ELSE LET n == Len(extrinsics)
             before == p4_execute_extrinsics(SubSeq(extrinsics, 1, n - 1)) IN
         [state      |-> wrapping_add(before.state, extrinsics[n]),
          overflowed |-> before.overflowed \/ add_overflows(before.state, extrinsics[n])]

\* Block::child: the block it returns without overflow checks, and whether
\* one of its sums (the execution, the new state, the height) overflowed.
p4_Block_child(H, self, extrinsics) ==
    LET executed == p4_execute_extrinsics(extrinsics) IN
    [block |->
        p4_Block(p4_child(H, self.header,
                          hash(H, body_words(extrinsics)),
                          wrapping_add(self.header.state, executed.state)),
                 extrinsics),
     overflowed |->
        \/ executed.overflowed
        \/ add_overflows(self.header.state, executed.state)
        \/ height_overflows(self.header)]

\* The state test of Block::verify_sub_chain for one block: the sum it
\* compares the declared state with, and whether forming it overflowed.
p4_expected_state(prev_block, curr_block) ==
    LET prev == p4_execute_extrinsics(prev_block.body)
        curr == p4_execute_extrinsics(curr_block.body) IN
    [state      |-> wrapping_add(prev.state, curr.state),
     overflowed |-> \/ prev.overflowed
                    \/ curr.overflowed
                    \/ add_overflows(prev.state, curr.state)]

\* Block::verify_sub_chain, the loop from the i-th block of chain on: what it
\* returns, or that it aborted on an overflow in a build with overflow checks.
RECURSIVE p4_Block_verify_loop(_, _, _, _, _, _)
p4_Block_verify_loop(H, chain_, i, prev_block, verified, checks) ==
    IF i > Len(chain_) THEN [is_verified |-> verified, panicked |-> FALSE]
    ELSE LET curr_block == chain_[i]
             expected == p4_expected_state(prev_block, curr_block) IN
         IF height_mismatch(prev_block.header.height, curr_block.header.height)
         THEN [is_verified |-> FALSE, panicked |-> FALSE]
         ELSE IF checks /\ expected.overflowed
         THEN [is_verified |-> verified, panicked |-> TRUE]
         ELSE p4_Block_verify_loop(H, chain_, i + 1, curr_block,
                 /\ verified
                 /\ curr_block.header.state = expected.state
                 /\ hash(H, body_words(curr_block.body)) = curr_block.header.extrinsics_root,
                 checks)

p4_Block_verify_sub_chain(H, self, chain_, checks) ==
    p4_Block_verify_loop(H, chain_, 1, self, TRUE, checks)

\* ------------------------------------------------- p6_rich_state::Block

\* a * b as u64 arithmetic stores it without overflow checks, and whether
\* it overflows.
wrapping_mul(a, b) == (a * b) % (U64_MAX + 1)

mul_overflows(a, b) == a * b > U64_MAX

\* p6_rich_state::State
State(sum, product) == [sum |-> sum, product |-> product]

\* #[derive(Hash)] on State: the words it feeds the hasher.
state_words(state) == <<state.sum, state.product>>

p6_Block(header, body) == [header |-> header, body |-> body]

\* Block::execute_extrinsics: `sum += extrinsic; product *= extrinsic` over
\* the batch, from pre_state (the callers hand it a clone); the state as
\* stored without overflow checks, and whether a step overflowed.
RECURSIVE p6_execute_extrinsics(_, _)
p6_execute_extrinsics(pre_state, extrinsics) ==
    IF extrinsics = <<>> THEN [state |-> pre_state, overflowed |-> FALSE]
    ELSE LET n == Len(extrinsics)
             before == p6_execute_extrinsics(pre_state, SubSeq(extrinsics, 1, n - 1)) IN
         [state      |-> State(wrapping_add(before.state.sum, extrinsics[n]),
                               wrapping_mul(before.state.product, extrinsics[n])),
          overflowed |-> \/ before.overflowed
                         \/ add_overflows(before.state.sum, extrinsics[n])
                         \/ mul_overflows(before.state.product, extrinsics[n])]

\* Block::genesis
p6_Block_genesis(H, genesis_state) ==
    p6_Block(p6_genesis(hash(H, state_words(genesis_state))), <<>>)

\* Block::child: the block it returns without overflow checks, and whether
\* the execution or the height overflowed.
p6_Block_child(H, self, pre_state, extrinsics) ==
    LET executed == p6_execute_extrinsics(pre_state, extrinsics) IN
    [block |->
        p6_Block(p6_child(H, self.header,
                          hash(H, body_words(extrinsics)),
                          hash(H, state_words(executed.state))),
                 extrinsics),
     overflowed |-> executed.overflowed \/ height_overflows(self.header)]

\* The state root Block::verify_sub_chain holds prev_block to: the digest of
\* its body executed on the pre_state the call was given.
p6_expected_state(pre_state, prev_block) ==
    p6_execute_extrinsics(pre_state, prev_block.body)

\* Block::verify_sub_chain, the loop from the i-th block of chain on: what it
\* returns, or that it aborted on an overflow in a build with overflow checks.
RECURSIVE p6_Block_verify_loop(_, _, _, _, _, _, _)
p6_Block_verify_loop(H, pre_state, chain_, i, prev_block, verified, checks) ==
    IF i > Len(chain_) THEN [is_verified |-> verified, panicked |-> FALSE]
    ELSE LET curr_block == chain_[i]
             expected == p6_expected_state(pre_state, prev_block) IN
         IF checks /\ expected.overflowed
         THEN [is_verified |-> verified, panicked |-> TRUE]
         ELSE IF hash(H, state_words(expected.state)) # prev_block.header.state_root
         THEN [is_verified |-> FALSE, panicked |-> FALSE]
         ELSE p6_Block_verify_loop(H, pre_state, chain_, i + 1, curr_block,
                 /\ verified
                 /\ p6_verify_child(H, prev_block.header, curr_block.header)
                 /\ hash(H, body_words(curr_block.body)) = curr_block.header.extrinsics_root,
                 checks)

p6_Block_verify_sub_chain(H, self, pre_state, chain_, checks) ==
    p6_Block_verify_loop(H, pre_state, chain_, 1, self, TRUE, checks)

\* ---------------------------------------------------- building block chains

\* The modules that have blocks.
BlockVariants == {"p4", "p6"}

\* The most blocks built on the genesis block.
MaxBlocks == 3

\* The batches of extrinsics child is given: none, and two of them.
Batches == {<<>>, <<1, 2>>}

\* The digests the hasher is let give to the words of block chains: the
\* least ones of u64.
MaxDigest == 1

BlockHashTables(H, need) == {H @@ f : f \in [need \ DOMAIN H -> 0..MaxDigest]}

\* The states p6's genesis block is built for.
GenesisStates == {State(0, 1), State(1, 1)}

\* What a test overwrites in a block it built: a field of its header, or its
\* body.
BlockTamperFields(v) ==
    IF v = "p4" THEN {"parent", "body"} ELSE {"state_root", "body"}

\* The words Block::verify_sub_chain may hash.  In p4, the bodies of the
\* chain.  In p6, the bodies of the chain, the headers before the last and
\* the states their bodies make of pre_state.
BodyWords(blocks) == {body_words(blocks[i].body) : i \in 1..Len(blocks)}

p6_VerifyWords(pre_state, blocks) ==
    BodyWords(Tail(blocks))
       \cup {p6_words(blocks[i].header) : i \in 1..(Len(blocks) - 1)}
       \cup {state_words(p6_expected_state(pre_state, blocks[i]).state) :
                i \in 1..(Len(blocks) - 1)}

\* let g = Block::genesis(), in p6 Block::genesis(&state)
BlockInit ==
    /\ variant \in BlockVariants
    /\ IF variant = "p4"
       THEN /\ chain = <<p4_Block_genesis>>
            /\ hashes = NoHashes
            /\ post_states = <<>>
       ELSE \E genesis_state \in GenesisStates :
            \E H \in BlockHashTables(NoHashes, {state_words(genesis_state)}) :
               /\ chain = <<p6_Block_genesis(H, genesis_state)>>
               /\ hashes = H
               /\ post_states = <<genesis_state>>
    /\ child_args = NoArgs
    /\ tampered = NoTamper
    /\ is_verified = TRUE
    /\ overflow_checks \in BOOLEAN
    /\ panicked = FALSE
    /\ pc = "building"
    /\ NoLedger
    /\ NoFork

\* let b = tip.child(extrinsics), pushed onto the chain; the call aborts
\* when one of its sums overflows in a build with overflow checks.
p4_BlockChild ==
    /\ variant = "p4"
    /\ LET self == chain[Len(chain)] IN
       \E extrinsics \in Batches :
          \E H \in BlockHashTables(hashes, {body_words(extrinsics),
                                       p4_words(self.header)}) :
             LET child == p4_Block_child(H, self, extrinsics) IN
             /\ hashes' = H
             /\ child_args' = <<extrinsics>>
             /\ IF overflow_checks /\ child.overflowed
                THEN /\ panicked' = TRUE
                     /\ pc' = "aborted"
                     /\ UNCHANGED chain
                ELSE /\ chain' = Append(chain, child.block)
                     /\ UNCHANGED <<panicked, pc>>
    /\ UNCHANGED post_states

\* let b = tip.child(&state, extrinsics) with the state after tip, then
\* state = execute_extrinsics(&mut state, &extrinsics), as the tests that
\* build a chain keep the state from block to block.
p6_BlockChild ==
    /\ variant = "p6"
    /\ LET self == chain[Len(chain)]
           pre_state == post_states[Len(post_states)] IN
       \E extrinsics \in Batches :
          LET executed == p6_execute_extrinsics(pre_state, extrinsics) IN
          \E H \in BlockHashTables(hashes, {body_words(extrinsics),
                                       state_words(executed.state),
                                       p6_words(self.header)}) :
             LET child == p6_Block_child(H, self, pre_state, extrinsics) IN
             /\ hashes' = H
             /\ child_args' = <<pre_state, extrinsics>>
             /\ IF overflow_checks /\ child.overflowed
                THEN /\ panicked' = TRUE
                     /\ pc' = "aborted"
                     /\ UNCHANGED <<chain, post_states>>
                ELSE /\ chain' = Append(chain, child.block)
                     /\ post_states' = Append(post_states, executed.state)
                     /\ UNCHANGED <<panicked, pc>>

BlockChild ==
    /\ pc = "building"
    /\ tampered = NoTamper
    /\ Len(chain) <= MaxBlocks
    /\ (p4_BlockChild \/ p6_BlockChild)
    /\ UNCHANGED <<tampered, is_verified, variant, overflow_checks>>
    /\ UNCHANGED <<ledger_vars, fork_vars>>

\* b.header.parent = v, b.header.state_root = v or b.body = v on one block of
\* the suffix, v another value than it holds.
BlockTamper ==
    /\ pc = "building"
    /\ tampered = NoTamper
    /\ \E at \in 2..Len(chain), field \in BlockTamperFields(variant) :
          /\ IF field = "body"
             THEN \E body \in Batches :
                     /\ chain[at].body # body
                     /\ chain' = [chain EXCEPT ![at].body = body]
             ELSE \E value \in U64 :
                     /\ chain[at].header[field] # value
                     /\ chain' = [chain EXCEPT ![at].header[field] = value]
          /\ tampered' = [at |-> at, field |-> field]
    /\ UNCHANGED <<hashes, child_args, is_verified, variant, overflow_checks, panicked, pc,
                   post_states>>
    /\ UNCHANGED <<ledger_vars, fork_vars>>

\* chain[0].verify_sub_chain(&chain[1..]), in p6 with the genesis state:
\* chain[0].verify_sub_chain(&state, &chain[1..])
BlockVerify ==
    /\ pc = "building"
    /\ \E H \in BlockHashTables(hashes,
                           IF variant = "p4" THEN BodyWords(Tail(chain))
                           ELSE p6_VerifyWords(post_states[1], chain)) :
          LET r == IF variant = "p4"
                   THEN p4_Block_verify_sub_chain(H, chain[1], Tail(chain), overflow_checks)
                   ELSE p6_Block_verify_sub_chain(H, chain[1], post_states[1],
                                                  Tail(chain), overflow_checks) IN
          /\ hashes' = H
          /\ is_verified' = r.is_verified
          /\ panicked' = r.panicked
          /\ pc' = IF r.panicked THEN "aborted" ELSE "verified"
    /\ UNCHANGED <<chain, child_args, tampered, variant, overflow_checks, post_states>>
    /\ UNCHANGED <<ledger_vars, fork_vars>>

BlockNext == BlockChild \/ BlockTamper \/ BlockVerify

BlockSpec == BlockInit /\ [][BlockNext]_vars

\* ----------------------------------------------------------- proof of work

\* p3_consensus::Header
p3_Header(parent, height, extrinsic, state, consensus_digest) ==
    [parent |-> parent, height |-> height, extrinsic |-> extrinsic,
     state |-> state, consensus_digest |-> consensus_digest]

\* #[derive(Hash)] on it: the words it feeds the hasher.
p3_words(h) == <<h.parent, h.height, h.extrinsic, h.state, h.consensus_digest>>

\* p3 Header::genesis
p3_genesis == p3_Header(0, 0, 0, 0, 0)

\* p3_consensus::THRESHOLD, u64::max_value() / 100: one digest in a hundred
\* lies below it.  The domain here has fewer than a hundred digests, and the
\* divisor is scaled with it, so that some digest still lies below it.
p3_THRESHOLD == U64_MAX \div 2

\* The largest u32, on the scale of U64_MAX.
U32_MAX == 1

\* generate_nonce: `rng.gen::<u32>() as u64`, any u32.
Nonces == 0..U32_MAX

\* A nonce written to the state as well as to the digest.
with_nonce_over_state(header, nonce) ==
    [header EXCEPT !.consensus_digest = nonce, !.state = nonce]

\* header.consensus_digest = nonce
with_nonce(header, nonce) == [header EXCEPT !.consensus_digest = nonce]

\* A test no digest passes.
below_nothing(digest, threshold) == FALSE

\* The test both mining loops end on, with <= in the place of <.
below_or_at_threshold(digest, threshold) == digest <= threshold

\* The test both mining loops end on: `hash(&valid_header) < threshold`.
below_threshold(digest, threshold) == digest < threshold

\* p3 Header::child up to its loop: the header it is about to mine, as u64
\* arithmetic stores it, and whether the height or the state overflowed.
p3_child_candidate(H, self, extrinsic) ==
    [header |-> p3_Header(hash(H, p3_words(self)), child_height(self), extrinsic,
                          wrapping_add(self.state, extrinsic), 0),
     overflowed |-> height_overflows(self) \/ add_overflows(self.state, extrinsic)]

\* What is mined: "p3" is p3's Header::child, "p5" is p5's
\* mine_consensus_digest on a p4 header, "p5 block" is p5's mine_extra_hard
\* on a p4 block.
MineVariants == {"p3", "p5", "p5 block"}

\* The header that mine_extra_hard hands to mine_consensus_digest.
header_to_mine(v, given) == IF v = "p5 block" THEN given.header ELSE given

\* What the caller holds when mining ends with nonce: the header p3's child
\* returns, the header or the block the p5 functions wrote the nonce to.
mined(v, given, valid_header, nonce) ==
    CASE v = "p3"       -> valid_header
      [] v = "p5"       -> with_nonce(given, nonce)
      [] v = "p5 block" -> [given EXCEPT !.header = with_nonce(given.header, nonce)]

Mine_words(v, header) == IF v = "p3" THEN p3_words(header) ELSE p4_words(header)

\* ---------------------------------------------------------------- mining

\* The headers p3's child is called on, and the extrinsics it is given.
P3Parents == {p3_genesis, p3_Header(1, 1, 1, 1, 1), p3_Header(2, U64_MAX, 0, 1, 0)}

Extrinsics == {0, 1, U64_MAX}

\* The headers and blocks the p5 functions are called on, and the
\* thresholds they are given.
MineHeaders == {p4_genesis, p4_Header(1, 1, 1, 1, 0)}

MineBlocks == {p4_Block(p4_Header(1, 1, 1, 1, 0), <<1>>)}

Thresholds == U64

\* chain[1] is what the function is called on, chain[2] the header its loop
\* writes nonces to, chain[3] what the caller holds after it.
MineInit ==
    /\ variant \in MineVariants
    /\ CASE variant = "p3" ->
               /\ \E self \in P3Parents : chain = <<self>>
               /\ \E extrinsic \in Extrinsics : child_args = <<extrinsic>>
         [] variant = "p5" ->
               /\ \E header \in MineHeaders : chain = <<header>>
               /\ \E threshold \in Thresholds : child_args = <<threshold>>
         [] variant = "p5 block" ->
               /\ \E block \in MineBlocks : chain = <<block>>
               /\ \E threshold \in Thresholds : child_args = <<threshold>>
    /\ hashes = NoHashes
    /\ tampered = NoTamper
    /\ is_verified = TRUE
    /\ post_states = <<>>
    /\ overflow_checks \in BOOLEAN
    /\ panicked = FALSE
    /\ pc = "start"
    /\ NoLedger
    /\ NoFork

\* The threshold the loop mines against.
mining_threshold == IF variant = "p3" THEN p3_THRESHOLD ELSE child_args[1]

\* The call up to the loop: p3 builds the child header, which aborts on an
\* overflow in a build with overflow checks; p5 clones the header.
MineStart ==
    /\ pc = "start"
    /\ IF variant = "p3"
       THEN \E H \in HashTables(hashes, {p3_words(chain[1])}) :
               LET candidate == p3_child_candidate(H, chain[1], child_args[1]) IN
               /\ hashes' = H
               /\ IF overflow_checks /\ candidate.overflowed
                  THEN /\ panicked' = TRUE
                       /\ pc' = "aborted"
                       /\ UNCHANGED chain
                  ELSE /\ chain' = <<chain[1], candidate.header>>
                       /\ pc' = "mining"
                       /\ UNCHANGED panicked
       ELSE /\ chain' = <<chain[1], header_to_mine(variant, chain[1])>>
            /\ pc' = "mining"
            /\ UNCHANGED <<hashes, panicked>>
    /\ UNCHANGED <<variant, child_args, tampered, is_verified, post_states, overflow_checks>>
    /\ UNCHANGED <<ledger_vars, fork_vars>>

\* One turn of the loop: a nonce, the digest of the header with it, and the
\* end of the call if the digest is below the threshold.
MineTry ==
    /\ pc = "mining"
    /\ \E nonce \in Nonces :
          LET valid_header == with_nonce(chain[2], nonce) IN
          \E H \in HashTables(hashes, {Mine_words(variant, valid_header)}) :
             /\ hashes' = H
             /\ IF below_threshold(hash(H, Mine_words(variant, valid_header)),
                                   mining_threshold)
                THEN /\ chain' = <<chain[1], valid_header,
                                   mined(variant, chain[1], valid_header, nonce)>>
                     /\ pc' = "mined"
                ELSE /\ chain' = <<chain[1], valid_header>>
                     /\ UNCHANGED pc
    /\ UNCHANGED <<variant, child_args, tampered, is_verified, post_states, overflow_checks,
                   panicked>>
    /\ UNCHANGED <<ledger_vars, fork_vars>>

MineNext == MineStart \/ MineTry

MineSpec == MineInit /\ [][MineNext]_vars

\* ------------------------------------------------- mining, nonce by nonce

\* The words of the headers the loop can form from the header it mines.
NonceWords(v, header) == {Mine_words(v, with_nonce(header, nonce)) : nonce \in Nonces}

\* The call up to the loop, as MineStart, with the digests of the headers
\* the loop can form told apart from the start: hash is a function, and
\* which nonces end the loop is settled before the loop draws any.
MineFairStart ==
    /\ pc = "start"
    /\ IF variant = "p3"
       THEN \E H1 \in HashTables(hashes, {p3_words(chain[1])}) :
               LET candidate == p3_child_candidate(H1, chain[1], child_args[1]) IN
               IF overflow_checks /\ candidate.overflowed
               THEN /\ hashes' = H1
                    /\ panicked' = TRUE
                    /\ pc' = "aborted"
                    /\ UNCHANGED chain
               ELSE /\ hashes' \in HashTables(H1, NonceWords(variant, candidate.header))
                    /\ chain' = <<chain[1], candidate.header>>
                    /\ pc' = "mining"
                    /\ UNCHANGED panicked
       ELSE /\ hashes' \in HashTables(hashes,
                                      NonceWords(variant, header_to_mine(variant, chain[1])))
            /\ chain' = <<chain[1], header_to_mine(variant, chain[1])>>
            /\ pc' = "mining"
            /\ UNCHANGED panicked
    /\ UNCHANGED <<variant, child_args, tampered, is_verified, post_states, overflow_checks>>
    /\ UNCHANGED <<ledger_vars, fork_vars>>

\* A turn of the loop in which generate_nonce returned this nonce.
NonceSelected(nonce) == MineTry /\ chain'[2].consensus_digest = nonce

MineFairNext == MineFairStart \/ MineTry

\* generate_nonce draws every u32 with the same probability at every turn:
\* a nonce that could be drawn for ever is drawn at some turn.
MineFairSpec ==
    /\ MineInit
    /\ [][MineFairNext]_vars
    /\ \A nonce \in Nonces : WF_vars(NonceSelected(nonce))

\* ------------------------------------------------------------ fork choice

Strategies == {"LongestChainRule", "HeaviestChainRule", "MostBlocksWithEvenHash"}

\* p5_fork_choice::THRESHOLD, u64::max_value() / 100.  get_work uses it as a
\* number only, and the quotient is formed as the source forms it.
p5_THRESHOLD == U64_MAX \div 100

\* The range of i64 on the scale of U64_MAX: as many values as u64 has, the
\* upper half of u64 below zero.
I64_MAX == U64_MAX \div 2

I64_MIN == I64_MAX - U64_MAX

\* `x as i64` of a u64: the same bits, so the upper half of u64 wraps to the
\* negative numbers.
as_i64(x) == IF x > I64_MAX THEN x - (U64_MAX + 1) ELSE x

\* An i64 result that left the range: whether it did, and what is stored
\* for it without overflow checks.
i64_overflows(n) == n < I64_MIN \/ n > I64_MAX

i64_wrap(n) == ((n - I64_MIN) % (U64_MAX + 1)) + I64_MIN

\* i64::saturating_add
i64_saturating_add(a, b) ==
    IF a + b > I64_MAX THEN I64_MAX
    ELSE IF a + b < I64_MIN THEN I64_MIN
    ELSE a + b

\* LongestChainRule::first_chain_is_better
Longest_first_chain_is_better_strict(chain_1, chain_2) ==
    IF Len(chain_1) <= Len(chain_2) THEN FALSE ELSE TRUE

Longest_first_chain_is_better(chain_1, chain_2) ==
    IF Len(chain_1) < Len(chain_2) THEN FALSE ELSE TRUE

\* LongestChainRule::best_chain, the loop from the i-th candidate on; best
\* is the place of the candidate the reference best_chain points to.
RECURSIVE Longest_best_chain_loop(_, _, _)
Longest_best_chain_loop(candidate_chains_, i, best) ==
    IF i > Len(candidate_chains_) THEN best
    ELSE Longest_best_chain_loop(candidate_chains_, i + 1,
            IF Len(candidate_chains_[i]) > Len(candidate_chains_[best]) THEN i ELSE best)

Longest_best_chain(candidate_chains_) ==
    Longest_best_chain_loop(candidate_chains_, 2, 1)

\* HeaviestChainRule::get_work: the work as stored without overflow checks,
\* and whether a subtraction overflowed (the additions saturate).
RECURSIVE get_work(_, _)
get_work(H, chain_) ==
    IF chain_ = <<>> THEN [work |-> 0, overflowed |-> FALSE]
    ELSE LET n == Len(chain_)
             before == get_work(H, SubSeq(chain_, 1, n - 1))
             difference == as_i64(p5_THRESHOLD) - as_i64(hash(H, p4_words(chain_[n]))) IN
         [work       |-> i64_saturating_add(before.work, i64_wrap(difference)),
          overflowed |-> before.overflowed \/ i64_overflows(difference)]

\* HeaviestChainRule::first_chain_is_better: what it returns, or that it
\* aborted on an overflow in a build with overflow checks.
Heaviest_first_chain_is_better(H, chain_1, chain_2, checks) ==
    LET work_1 == get_work(H, chain_1)
        work_2 == get_work(H, chain_2) IN
    [result   |-> IF work_1.work < work_2.work THEN FALSE ELSE TRUE,
     panicked |-> checks /\ (work_1.overflowed \/ work_2.overflowed)]

\* HeaviestChainRule::best_chain
RECURSIVE Heaviest_best_chain_loop(_, _, _, _)
Heaviest_best_chain_loop(H, candidate_chains_, i, best) ==
    IF i > Len(candidate_chains_) THEN best
    ELSE Heaviest_best_chain_loop(H, candidate_chains_, i + 1,
            IF get_work(H, candidate_chains_[i]).work
                  > get_work(H, candidate_chains_[best]).work
            THEN i ELSE best)

Heaviest_best_chain(H, candidate_chains_, checks) ==
    [result   |-> Heaviest_best_chain_loop(H, candidate_chains_, 2, 1),
     panicked |-> /\ checks
                  /\ Len(candidate_chains_) >= 2
                  /\ \E i \in 1..Len(candidate_chains_) :
                        get_work(H, candidate_chains_[i]).overflowed]

\* The parity test of count_even_hashes, counting the odd digests.
is_odd(digest) == digest % 2 = 1

\* The parity test of count_even_hashes: `hash(&header) % 2 == 0`.
is_even(digest) == digest % 2 = 0

\* MostBlocksWithEvenHash::count_even_hashes
RECURSIVE count_even_hashes(_, _)
count_even_hashes(H, chain_) ==
    IF chain_ = <<>> THEN 0
    ELSE count_even_hashes(H, Tail(chain_))
            + (IF is_even(hash(H, p4_words(chain_[1]))) THEN 1 ELSE 0)

\* MostBlocksWithEvenHash::first_chain_is_better
EvenHash_first_chain_is_better(H, chain_1, chain_2) ==
    IF count_even_hashes(H, chain_1) < count_even_hashes(H, chain_2) THEN FALSE ELSE TRUE

\* The test best_chain replaces its best candidate on, passing on a tie too.
next_has_as_many(best_count, next_count) == best_count <= next_count

\* The test MostBlocksWithEvenHash::best_chain replaces its best candidate
\* on: `count_even_hashes(best_chain) < count_even_hashes(next_chain)`.
next_has_more(best_count, next_count) == best_count < next_count

\* MostBlocksWithEvenHash::best_chain
RECURSIVE EvenHash_best_chain_loop(_, _, _, _)
EvenHash_best_chain_loop(H, candidate_chains_, i, best) ==
    IF i > Len(candidate_chains_) THEN best
    ELSE EvenHash_best_chain_loop(H, candidate_chains_, i + 1,
            IF next_has_more(count_even_hashes(H, candidate_chains_[best]),
                             count_even_hashes(H, candidate_chains_[i]))
            THEN i ELSE best)

EvenHash_best_chain(H, candidate_chains_) ==
    EvenHash_best_chain_loop(H, candidate_chains_, 2, 1)

\* S::first_chain_is_better and S::best_chain of each strategy S.
first_chain_is_better(S, H, chain_1, chain_2, checks) ==
    CASE S = "LongestChainRule" ->
            [result   |-> Longest_first_chain_is_better(chain_1, chain_2),
             panicked |-> FALSE]
      [] S = "HeaviestChainRule" ->
            Heaviest_first_chain_is_better(H, chain_1, chain_2, checks)
      [] S = "MostBlocksWithEvenHash" ->
            [result   |-> EvenHash_first_chain_is_better(H, chain_1, chain_2),
             panicked |-> FALSE]

best_chain(S, H, candidate_chains_, checks) ==
    CASE S = "LongestChainRule" ->
            [result |-> Longest_best_chain(candidate_chains_), panicked |-> FALSE]
      [] S = "HeaviestChainRule" ->
            Heaviest_best_chain(H, candidate_chains_, checks)
      [] S = "MostBlocksWithEvenHash" ->
            [result |-> EvenHash_best_chain(H, candidate_chains_), panicked |-> FALSE]

\* ------------------------------------------------------- choosing a fork

\* The most candidates best_chain is given.
MaxCandidates == 3

\* The headers of the candidate chains: genesis and two children of it.
ForkHeaders ==
    [g |-> p4_genesis, a |-> p4_Header(1, 1, 1, 1, 0), b |-> p4_Header(1, 1, 2, 3, 0)]

\* The chains the candidates are taken from.
ForkChains ==
    {<<>>, <<ForkHeaders.g>>, <<ForkHeaders.a>>,
     <<ForkHeaders.g, ForkHeaders.a>>, <<ForkHeaders.a, ForkHeaders.b>>}

\* The words a strategy hashes of the chains it is given: the Longest rule
\* hashes nothing, the two others every header.
ForkWords(S, chains) ==
    IF S = "LongestChainRule" THEN {}
    ELSE UNION {{p4_words(chains[i][j]) : j \in 1..Len(chains[i])} :
                   i \in 1..Len(chains)}

\* The candidate chains, with no call made on them yet.
ForkInit ==
    /\ strategy \in Strategies
    /\ candidate_chains \in
          UNION {[1..n -> ForkChains] : n \in 1..MaxCandidates}
    /\ choice = NoChoice
    /\ hashes = NoHashes
    /\ overflow_checks \in BOOLEAN
    /\ panicked = FALSE
    /\ pc = "choosing"
    /\ variant = "p4"
    /\ chain = <<>>
    /\ child_args = NoArgs
    /\ tampered = NoTamper
    /\ is_verified = TRUE
    /\ post_states = <<>>
    /\ NoLedger

\* S::first_chain_is_better(candidate_chains[0], candidate_chains[1])
ForkFirstChainIsBetter ==
    /\ pc = "choosing"
    /\ ~choice.first_called
    /\ Len(candidate_chains) >= 2
    /\ LET chain_1 == candidate_chains[1]
           chain_2 == candidate_chains[2] IN
       \E H \in HashTables(hashes, ForkWords(strategy, <<chain_1, chain_2>>)) :
          LET r == first_chain_is_better(strategy, H, chain_1, chain_2, overflow_checks) IN
          /\ hashes' = H
          /\ panicked' = r.panicked
          /\ pc' = IF r.panicked THEN "aborted" ELSE pc
          /\ choice' = [choice EXCEPT !.first_called = TRUE,
                                      !.first_chain_is_better = ~r.panicked /\ r.result]
    /\ UNCHANGED <<strategy, candidate_chains, overflow_checks>>
    /\ UNCHANGED <<ledger_vars, variant, chain, child_args, tampered, is_verified, post_states>>

\* S::best_chain(&candidate_chains): the place of the candidate it returns a
\* reference to, 0 if it aborted.
ForkBestChain ==
    /\ pc = "choosing"
    /\ ~choice.best_called
    /\ \E H \in HashTables(hashes,
                           IF Len(candidate_chains) >= 2
                           THEN ForkWords(strategy, candidate_chains) ELSE {}) :
          LET r == best_chain(strategy, H, candidate_chains, overflow_checks) IN
          /\ hashes' = H
          /\ panicked' = r.panicked
          /\ pc' = IF r.panicked THEN "aborted" ELSE pc
          /\ choice' = [choice EXCEPT !.best_called = TRUE,
                                      !.best_chain = IF r.panicked THEN 0 ELSE r.result]
    /\ UNCHANGED <<strategy, candidate_chains, overflow_checks>>
    /\ UNCHANGED <<ledger_vars, variant, chain, child_args, tampered, is_verified, post_states>>

ForkNext == ForkFirstChainIsBetter \/ ForkBestChain

ForkSpec == ForkInit /\ [][ForkNext]_vars

\* ------------------------------------------------------------- p3_atm::Atm

\* u64::MAX on the scale of the ATM, whose amounts are typed in decimal: an
\* amount of two digits fits, one of three digits does not.
ATM_U64_MAX == 44

\* enum Key; the digit keys are those the withdrawal fold gives a value to.
Keys == {"One", "Two", "Three", "Four", "Enter"}

DigitKeys == Keys \ {"Enter"}

\* enum Action
SwipeCard(pin_hash) == [kind |-> "SwipeCard", pin_hash |-> pin_hash]

PressKey(key) == [kind |-> "PressKey", key |-> key]

\* enum Authentication
Waiting == [status |-> "Waiting"]

Authenticating(pin_hash) == [status |-> "Authenticating", pin_hash |-> pin_hash]

Authenticated == [status |-> "Authenticated"]

\* struct Atm
Atm(cash_inside, expected_pin_hash, keystroke_register) ==
    [cash_inside |-> cash_inside,
     expected_pin_hash |-> expected_pin_hash,
     keystroke_register |-> keystroke_register]

\* #[derive(Hash)] on Key: the discriminant of the variant, one word.
key_word(key) ==
    CASE key = "One" -> 0
      [] key = "Two" -> 1
      [] key = "Three" -> 2
      [] key = "Four" -> 3
      [] key = "Enter" -> 4

\* Hash for Vec<Key>: the length, then every key.
register_words(keystroke_register) ==
    <<Len(keystroke_register)>>
        \o [i \in 1..Len(keystroke_register) |-> key_word(keystroke_register[i])]

\* The filter_map of the withdrawal: the value of a digit key, nothing for
\* Enter.
digit_value(key) ==
    CASE key = "One" -> 1
      [] key = "Two" -> 2
      [] key = "Three" -> 3
      [] key = "Four" -> 4
      [] OTHER -> 0

is_digit(key) == key \in DigitKeys

\* .fold(0, |acc, digit| acc * 10 + digit as u64) over the first n keys of
\* the register: the u64 it holds (wrapped where a step left the u64 range)
\* and whether some step did leave it.
RECURSIVE amount_fold(_, _)
amount_fold(keystroke_register, n) ==
    IF n = 0 THEN [amount |-> 0, overflowed |-> FALSE]
    ELSE LET before == amount_fold(keystroke_register, n - 1)
             key == keystroke_register[n] IN
         IF ~is_digit(key) THEN before
         ELSE LET sum == before.amount * 10 + digit_value(key) IN
              [amount |-> sum % (ATM_U64_MAX + 1),
               overflowed |-> before.overflowed \/ sum > ATM_U64_MAX]

\* The comparison of the entered pin with the expected one, left out.
pin_never_checked(entered_pin_hash, expected_pin_hash) == TRUE

\* entered_pin_hash == expected_pin_hash
pin_matches(entered_pin_hash, expected_pin_hash) ==
    entered_pin_hash = expected_pin_hash

\* amount_to_withdraw <= new_state.cash_inside
cash_suffices(amount_to_withdraw, cash_inside) ==
    amount_to_withdraw <= cash_inside

\* The arm of SwipeCard that takes every card, whatever the ATM is doing.
swipe_always_taken(start, pin_hash) ==
    [start EXCEPT !.expected_pin_hash = Authenticating(pin_hash)]

\* A swipe that opens the ATM without any pin.
swipe_skips_the_pin(start, pin_hash) ==
    [start EXCEPT !.expected_pin_hash = Authenticated]

\* Action::SwipeCard(pin_hash)
swipe_card(start, pin_hash) ==
    IF start.expected_pin_hash = Waiting
    THEN [start EXCEPT !.expected_pin_hash = Authenticating(pin_hash)]
    ELSE start

\* Action::PressKey(key) while Authenticating(expected_pin_hash)
press_key_authenticating(H, start, key) ==
    IF key = "Enter"
    THEN LET entered_pin_hash == hash(H, register_words(start.keystroke_register)) IN
         Atm(start.cash_inside,
             IF pin_matches(entered_pin_hash, start.expected_pin_hash.pin_hash)
             THEN Authenticated ELSE Waiting,
             <<>>)
    ELSE [start EXCEPT !.keystroke_register = Append(@, key)]

\* Action::PressKey(key) while Authenticated: the state returned and whether
\* the fold of the amount left the u64 range.  cash_inside -= amount is
\* guarded by the test before it and stays in range.
press_key_authenticated(start, key) ==
    IF key = "Enter"
    THEN LET fold == amount_fold(start.keystroke_register,
                                 Len(start.keystroke_register))
             amount_to_withdraw == fold.amount IN
         [state |-> Atm(IF cash_suffices(amount_to_withdraw, start.cash_inside)
                        THEN start.cash_inside - amount_to_withdraw
                        ELSE start.cash_inside,
                        Waiting, <<>>),
          overflowed |-> fold.overflowed]
    ELSE [state |-> [start EXCEPT !.keystroke_register = Append(@, key)],
          overflowed |-> FALSE]

\* Atm::next_state(starting_state, transition) with the digests of H: the
\* state returned, and whether the call aborted instead (an overflow in a
\* build that checks for it returns nothing).
Atm_next_state(H, start, t, checks) ==
    LET status == start.expected_pin_hash.status
        r == IF t.kind = "SwipeCard"
             THEN [state |-> swipe_card(start, t.pin_hash), overflowed |-> FALSE]
             ELSE CASE status = "Waiting" ->
                         [state |-> start, overflowed |-> FALSE]
                    [] status = "Authenticating" ->
                         [state |-> press_key_authenticating(H, start, t.key),
                          overflowed |-> FALSE]
                    [] status = "Authenticated" ->
                         press_key_authenticated(start, t.key) IN
    IF r.overflowed /\ checks
    THEN [state |-> start, panicked |-> TRUE]
    ELSE [state |-> r.state, panicked |-> FALSE]

\* The registers next_state hashes: the one in place when Enter ends a pin.
Atm_words(start, t) ==
    IF /\ t.kind = "PressKey"
       /\ t.key = "Enter"
       /\ start.expected_pin_hash.status = "Authenticating"
    THEN {register_words(start.keystroke_register)}
    ELSE {}

\* -------------------------------------------------------- one call of the ATM

\* The longest keystroke register a call starts from.
MaxKeys == 3

\* The cash the ATMs hold: none, a little, and all a u64 can count.
CashInside == {0, 10, ATM_U64_MAX}

\* The pin hashes of the cards: digests that registers do hash to.
PinHashes == 0..MaxDigest

AtmActions == {SwipeCard(p) : p \in PinHashes} \cup {PressKey(k) : k \in Keys}

\* The ATMs the tests start from: any cash, any authentication, and a
\* register of digit keys (Enter empties the register, never enters it).
AtmStates ==
    {Atm(c, a, r) :
        c \in CashInside,
        a \in {Waiting, Authenticated} \cup {Authenticating(p) : p \in PinHashes},
        r \in SeqUpTo(DigitKeys, MaxKeys)}

\* let start = Atm { .. }: the ATM of a test, no call yet.
AtmInit ==
    /\ starting_state \in AtmStates
    /\ new_state = starting_state
    /\ transition = NoTransition
    /\ printed = ""
    /\ serials_assigned = {}
    /\ panicked = FALSE
    /\ overflow_checks \in BOOLEAN
    /\ pc = "idle"
    /\ NoChain
    /\ NoFork

\* let end = Atm::next_state(&new_state, &t): one call on the ATM held now.
AtmApply(t) ==
    \E H \in BlockHashTables(hashes, Atm_words(new_state, t)) :
       LET r == Atm_next_state(H, new_state, t, overflow_checks) IN
       /\ starting_state' = new_state
       /\ transition' = t
       /\ new_state' = r.state
       /\ panicked' = r.panicked
       /\ pc' = IF r.panicked THEN "aborted" ELSE "returned"
       /\ hashes' = H
       /\ UNCHANGED <<printed, serials_assigned, overflow_checks, fork_vars>>
       /\ UNCHANGED <<variant, chain, child_args, tampered, is_verified, post_states>>

AtmSwipeCard ==
    /\ pc = "idle"
    /\ \E pin_hash \in PinHashes : AtmApply(SwipeCard(pin_hash))

AtmPressKey ==
    /\ pc = "idle"
    /\ \E key \in Keys : AtmApply(PressKey(key))

AtmNext == AtmSwipeCard \/ AtmPressKey

AtmSpec == AtmInit /\ [][AtmNext]_vars

\* ------------------------------------------------- a session at the ATM

\* The longest keystroke register the sessions followed build up.
MaxSessionKeys == 1

\* The keys pressed in those sessions, and the cash the ATM starts with.
SessionKeys == {"One", "Enter"}

SessionCash == {2}

\* An ATM in service: Waiting, nothing keyed in, no call yet.
AtmSessionInit ==
    /\ \E cash_inside \in SessionCash : new_state = Atm(cash_inside, Waiting, <<>>)
    /\ starting_state = new_state
    /\ transition = NoTransition
    /\ printed = ""
    /\ serials_assigned = {}
    /\ panicked = FALSE
    /\ overflow_checks \in BOOLEAN
    /\ pc = "idle"
    /\ NoChain
    /\ NoFork

\* atm = Atm::next_state(&atm, &action) on the ATM the call before returned.
AtmSessionSwipeCard ==
    /\ ~panicked
    /\ \E pin_hash \in PinHashes : AtmApply(SwipeCard(pin_hash))

AtmSessionPressKey ==
    /\ ~panicked
    /\ \E key \in SessionKeys : AtmApply(PressKey(key))
    /\ Len(new_state'.keystroke_register) <= MaxSessionKeys

AtmSessionNext == AtmSessionSwipeCard \/ AtmSessionPressKey

AtmSessionSpec == AtmSessionInit /\ [][AtmSessionNext]_vars

\* ------------------------------------------- p4_accounted_currency

\* type Balances = HashMap<User, u64>: the accounts present and what each
\* holds.  HashMap::new(), contains_key, insert and remove.
no_balances == [user \in {} |-> 0]

contains_key(balances, user) == user \in DOMAIN balances

insert(balances, user, amount) ==
    [u \in DOMAIN balances \cup {user} |-> IF u = user THEN amount ELSE balances[u]]

remove(balances, user) == [u \in DOMAIN balances \ {user} |-> balances[u]]

\* enum AccountingTransaction; Mint { minter, amount } is built as the Mint
\* of the digital cash, which has the same fields.
Burn(burner, amount) == [kind |-> "Burn", burner |-> burner, amount |-> amount]

AccountingTransfer(sender, receiver, amount) ==
    [kind |-> "Transfer", sender |-> sender, receiver |-> receiver, amount |-> amount]

\* AccountingTransaction::Mint: *new_state.entry(*minter).or_insert(0) += amount.
\* The sum is a u64: it wraps, and the flag says so.
accounting_mint(balances, minter, amount) ==
    IF amount = 0 THEN [state |-> balances, overflowed |-> FALSE]
    ELSE LET old_amount == IF contains_key(balances, minter) THEN balances[minter] ELSE 0 IN
         [state |-> insert(balances, minter, wrapping_add(old_amount, amount)),
          overflowed |-> add_overflows(old_amount, amount)]

\* AccountingTransaction::Burn
accounting_burn(balances, burner, amount) ==
    IF ~contains_key(balances, burner) THEN balances
    ELSE LET old_amount == balances[burner]
             new_amount == saturating_sub(old_amount, amount) IN
         IF new_amount <= 0 THEN remove(balances, burner)
         ELSE insert(balances, burner, amount)

\* new_state.get(sender) == new_state.get(receiver): both accounts are
\* present here, so the two Options are equal iff the balances are.
same_account(balances, sender, receiver) == balances[sender] = balances[receiver]

\* The sender's side of a Transfer: its account is removed when emptied.
debit_sender(balances, sender, amount) ==
    LET new_amount_of_sender == saturating_sub(balances[sender], amount) IN
    IF new_amount_of_sender = 0 THEN remove(balances, sender)
    ELSE insert(balances, sender, new_amount_of_sender)

\* AccountingTransaction::Transfer
accounting_transfer(balances, sender, receiver, amount) ==
    IF ~contains_key(balances, sender) \/ ~contains_key(balances, receiver) THEN balances
    ELSE IF balances[sender] < amount THEN balances
    ELSE IF same_account(balances, sender, receiver) THEN balances
    ELSE IF ~contains_key(balances, receiver)
         THEN insert(debit_sender(balances, sender, amount), receiver, amount)
         ELSE LET new_amount_of_receiver == saturating_sub(balances[receiver], amount) IN
              insert(debit_sender(balances, sender, amount), receiver, new_amount_of_receiver)

\* AccountedCurrency::next_state(starting_state, t): the balances returned,
\* and whether the call aborted instead.
Accounted_next_state(start, t, checks) ==
    LET r == CASE t.kind = "Mint" -> accounting_mint(start, t.minter, t.amount)
               [] t.kind = "Burn" ->
                    [state |-> accounting_burn(start, t.burner, t.amount),
                     overflowed |-> FALSE]
               [] t.kind = "Transfer" ->
                    [state |-> accounting_transfer(start, t.sender, t.receiver, t.amount),
                     overflowed |-> FALSE] IN
    IF r.overflowed /\ checks
    THEN [state |-> start, panicked |-> TRUE]
    ELSE [state |-> r.state, panicked |-> FALSE]

\* ------------------------------------------------ the accounts over time

\* No account yet, no call yet.
AccountedInit ==
    /\ new_state = no_balances
    /\ starting_state = new_state
    /\ transition = NoTransition
    /\ printed = ""
    /\ serials_assigned = {}
    /\ panicked = FALSE
    /\ overflow_checks \in BOOLEAN
    /\ pc = "idle"
    /\ NoChain
    /\ NoFork

\* balances = AccountedCurrency::next_state(&balances, &t) on the balances
\* the call before returned; a call that aborted is the last one.
AccountedApply(t) ==
    LET r == Accounted_next_state(new_state, t, overflow_checks) IN
    /\ ~panicked
    /\ starting_state' = new_state
    /\ transition' = t
    /\ new_state' = r.state
    /\ panicked' = r.panicked
    /\ pc' = IF r.panicked THEN "aborted" ELSE "returned"
    /\ UNCHANGED <<printed, serials_assigned, overflow_checks>>
    /\ UNCHANGED <<chain_vars, fork_vars>>

\* The transactions of each kind: any user, any amount.
Mints == {Mint(minter, amount) : minter \in Users, amount \in U64}

Burns == {Burn(burner, amount) : burner \in Users, amount \in U64}

AccountingTransfers ==
    {AccountingTransfer(sender, receiver, amount) :
        sender \in Users, receiver \in Users, amount \in U64}

AccountedMint == \E t \in Mints : AccountedApply(t)

AccountedBurn == \E t \in Burns : AccountedApply(t)

AccountedTransfer == \E t \in AccountingTransfers : AccountedApply(t)

AccountedNext == AccountedMint \/ AccountedBurn \/ AccountedTransfer

AccountedSpec == AccountedInit /\ [][AccountedNext]_vars

\* ------------------------------------------------- vocabulary of the claims

\* A call of next_state has ended, with a Mint or with a Transfer.
MintCalled == pc = "returned" /\ transition.kind = "Mint"

TransferCalled == pc = "returned" /\ transition.kind = "Transfer"

\* The set of the elements of a list.
Range(seq) == {seq[i] : i \in 1..Len(seq)}

\* The sum of the amounts of a list of bills, as an unbounded integer.
RECURSIVE SeqAmount(_)
SeqAmount(seq) ==
    IF seq = <<>> THEN 0 ELSE seq[1].amount + SeqAmount(Tail(seq))

\* The sum of the amounts of a set of bills, as an unbounded integer.
RECURSIVE SetAmount(_)
SetAmount(S) ==
    IF S = {} THEN 0
    ELSE LET b == CHOOSE x \in S : TRUE IN b.amount + SetAmount(S \ {b})

\* The spends are distinct bills of the starting ledger with distinct serials.
SpendsValid ==
    /\ transition.spends # <<>>
    /\ \A i \in 1..Len(transition.spends) :
          transition.spends[i] \in starting_state.bills
    /\ \A i, j \in 1..Len(transition.spends) :
          i # j => transition.spends[i].serial # transition.spends[j].serial

\* The Transfer went through both loops and the closure returned Ok(()).
TransferAccepted ==
    /\ TransferCalled
    /\ transition.spends # <<>>
    /\ transition.receives # <<>>
    /\ printed = ""
    /\ ~panicked

\* The call returned its argument: same bill set, same counter.
LedgerUnchanged == new_state = starting_state

\* The bill the Mint of the call is to create.
MintedBill ==
    Bill(transition.minter, transition.amount, starting_state.next_serial)

\* --------------------------------------------------------------------- C1

\* What C1 says of a Mint: the call returns the starting bills plus the bill
\* {minter, amount, n}, and the counter n + 1.
MintAddsOneBill ==
    /\ ~panicked
    /\ new_state.bills = starting_state.bills \cup {MintedBill}
    /\ new_state.next_serial = starting_state.next_serial + 1

ReceivedWithLedgerSerials ==
    {Bill(transition.receives[i].owner, transition.receives[i].amount,
          starting_state.next_serial + (i - 1)) :
        i \in 1..Len(transition.receives)}

\* C2 as stated: an accepted Transfer with k >= 1 receives applied to a
\* ledger whose counter is n returns the starting bills minus the spent
\* bills plus one bill per receive, the i-th with that receive's owner and
\* amount and the serial n + i whatever serial the entry declared, and
\* next_serial = n + k.
C2_ReceivesGetLedgerSerials ==
    TransferAccepted =>
        /\ new_state.bills =
              (starting_state.bills \ Range(transition.spends))
                  \cup ReceivedWithLedgerSerials
        /\ new_state.next_serial =
              starting_state.next_serial + Len(transition.receives)

\* --------------------------------------------------------------------- C3

\* C3 as stated: a Transfer whose non-empty spends list holds a bill that is
\* not verbatim in the ledger returns the starting ledger, for every
\* receives list.
C3_MissingSpendUnchanged ==
    (/\ TransferCalled
     /\ transition.spends # <<>>
     /\ \E i \in 1..Len(transition.spends) :
           transition.spends[i] \notin starting_state.bills)
        => LedgerUnchanged

\* --------------------------------------------------------------------- C4

\* C4 as stated: a Transfer with non-empty spends that all exist in the
\* ledger and an empty receives list removes exactly the spent bills: the
\* other bills stay, none is added, next_serial is unchanged.
C4_BurnRemovesOnlySpent ==
    (/\ TransferCalled
     /\ transition.spends # <<>>
     /\ Range(transition.spends) \subseteq starting_state.bills
     /\ transition.receives = <<>>)
        => /\ new_state.bills = starting_state.bills \ Range(transition.spends)
           /\ new_state.next_serial = starting_state.next_serial

\* --------------------------------------------------------------------- C5

\* The bills the call added to the ledger.
BillsAdded == new_state.bills \ starting_state.bills

\* C5: for every Transfer the amounts of the bills it adds sum to at most the
\* sum of the amounts of the bills it spends, as unbounded integers, and the
\* total value of the bills in the ledger does not grow.
C5_Conservation ==
    TransferCalled =>
        /\ SetAmount(BillsAdded) <= SeqAmount(transition.spends)
        /\ SetAmount(new_state.bills) <= SetAmount(starting_state.bills)

\* An accepted Transfer spent two bills whose amounts sum past u64::MAX, so
\* that the running total saturated, and paid out the whole of u64::MAX.
C5_Witness ==
    /\ TransferAccepted
    /\ Len(transition.spends) = 2
    /\ SeqAmount(transition.spends) > U64_MAX
    /\ SetAmount(BillsAdded) = U64_MAX

\* --------------------------------------------------------------------- C6

\* The amount still available to the i-th receive: the sum of the spent
\* amounts minus the amounts of the receives before it, unbounded.
StillAvailable(i) ==
    SeqAmount(transition.spends) - SeqAmount(SubSeq(transition.receives, 1, i - 1))

C7_DuplicateSpendUnchanged ==
    (/\ TransferCalled
     /\ \E i, j \in 1..Len(transition.spends) :
           i # j /\ transition.spends[i].serial = transition.spends[j].serial)
        => LedgerUnchanged

\* --------------------------------------------------------------------- C8

\* The i-th receive declares u64::MAX, the serial of one of the spends, or
\* the serial of an earlier receive.
ReceiveSerialCollides(i) ==
    LET serial == transition.receives[i].serial IN
    \/ serial = U64_MAX
    \/ \E j \in 1..Len(transition.spends) : transition.spends[j].serial = serial
    \/ \E j \in 1..(i - 1) : transition.receives[j].serial = serial

C10_MintZeroUnchanged ==
    (MintCalled /\ transition.amount = 0) => LedgerUnchanged

\* -------------------------------------------------------------------- C11

\* C11: a Transfer with an empty spends list returns a ledger equal to the
\* starting ledger for every receives list: no bill is created out of nothing
\* and next_serial is unchanged; the call returns (it does not abort).
C11_EmptySpendsUnchanged ==
    (TransferCalled /\ transition.spends = <<>>)
        => /\ LedgerUnchanged
           /\ ~panicked
           /\ BillsAdded = {}
           /\ new_state.next_serial = starting_state.next_serial

\* A Transfer with no spends and two receives of a positive amount, under
\* serials the ledger does not hold, was applied to a ledger that holds a
\* bill, and the ledger is as it was.
C11_Witness ==
    /\ TransferCalled
    /\ transition.spends = <<>>
    /\ Len(transition.receives) = 2
    /\ \A i \in 1..2 : transition.receives[i].amount > 0
    /\ starting_state.bills # {}
    /\ \A i \in 1..2 : \A b \in starting_state.bills :
          b.serial # transition.receives[i].serial
    /\ LedgerUnchanged

\* -------------------------------------------------------------------- C12

\* C12 as stated: in every ledger reachable from State::new() by Mint and
\* Transfer transitions, every bill of the bill set has a serial strictly
\* smaller than next_serial.
C12_SerialsBelowCounter ==
    \A b \in new_state.bills : b.serial < new_state.next_serial

\* -------------------------------------------------------------------- C13

\* C13 as stated: in every ledger reachable from State::new() by Mint and
\* Transfer transitions no two distinct bills of the bill set have the same
\* serial, and no serial that a bill was ever given is given to a later bill.
C13_SerialsNeverRepeat ==
    /\ \A b1, b2 \in new_state.bills : b1.serial = b2.serial => b1 = b2
    /\ \A b \in BillsAdded : b.serial \notin serials_assigned

\* -------------------------------------------------------------------- C14

\* C14 as stated: across any sequence of Mint and Transfer transitions,
\* accepted or rejected, the counter of the ledger next_state returns is
\* greater than or equal to the counter of the ledger it was applied to.
C14_CounterNeverDecreases ==
    (pc = "returned" /\ ~panicked)
        => new_state.next_serial >= starting_state.next_serial

\* -------------------------------------------------------------------- C15

\* The transition would add a bill: a Mint, or a Transfer that reaches the
\* insertion of a receive (its spends are in order and its first receive
\* passes the tests made before add_bill).
WouldAddBill ==
    \/ MintCalled
    \/ /\ TransferCalled
       /\ SpendsValid
       /\ transition.receives # <<>>
       /\ ~ReceiveSerialCollides(1)
       /\ transition.receives[1].amount <= SeqAmount(transition.spends)

\* C15 as stated: when next_serial is at u64::MAX, a transition that would
\* add a bill is rejected and leaves the ledger unchanged; the counter does
\* not wrap to a smaller value and the operation does not abort.
C15_FullCounterRejects ==
    (WouldAddBill /\ starting_state.next_serial = U64_MAX)
        => /\ LedgerUnchanged
           /\ ~panicked

\* -------------------------------------------------------------------- C16

\* The chain was built on Header::genesis() of p1 by child() alone, and
\* genesis.verify_sub_chain(rest) has returned.
P1ChainVerified ==
    /\ pc = "verified"
    /\ variant = "p1"
    /\ chain[1] = p1_genesis

\* C16: for every n >= 0 the p1 header chain built by Header::genesis() and n
\* successive child() calls satisfies genesis.verify_sub_chain(rest) = true;
\* and verifying the empty slice returns true for any anchor header.
C16_BuiltChainVerifies ==
    /\ (P1ChainVerified /\ tampered = NoTamper) => is_verified
    /\ (pc = "verified" /\ variant = "p1" /\ Len(chain) = 1) => is_verified

\* A chain of genesis and MaxChildren children was verified, and it held.
C16_Witness ==
    /\ P1ChainVerified
    /\ tampered = NoTamper
    /\ Len(chain) = MaxChildren + 1
    /\ chain[2].parent # 0
    /\ is_verified

\* -------------------------------------------------------------------- C17

\* Distinct streams of words that were hashed have distinct digests.
DistinctHashes ==
    \A w1, w2 \in DOMAIN hashes : w1 # w2 => hashes[w1] # hashes[w2]

\* C17: in a p1 chain built by genesis() and repeated child(), changing the
\* parent field or the height field of any single header of the suffix to a
\* different value makes genesis.verify_sub_chain(suffix) return false,
\* assuming distinct headers have distinct hashes.
C17_TamperedChainFails ==
    (P1ChainVerified /\ tampered # NoTamper /\ DistinctHashes) => ~is_verified

\* The parent field of a header that is not the first of the suffix was
\* changed, no two digests collide, and verification
\* returned false.
C17_Witness ==
    /\ P1ChainVerified
    /\ tampered.field = "parent"
    /\ tampered.at > 2
    /\ DistinctHashes
    /\ ~is_verified

\* -------------------------------------------------------------------- C18

\* genesis() has height 0 and parent digest 0, in p1, p4 and p6.
GenesisAtZero ==
    \A v \in Variants : \A root \in U64 :
        /\ Header_genesis(v, root).height = 0
        /\ Header_genesis(v, root).parent = 0

\* child was called last, on a header nothing was overwritten in.
ChildCalled == tampered = NoTamper /\ (panicked \/ Len(chain) >= 2)

\* The header it was called on.
ChildParent ==
    IF panicked THEN chain[Len(chain)] ELSE chain[Len(chain) - 1]

\* What C18 says of the call: it returned a header whose parent is hash(h)
\* and whose height is h.height + 1, and in p4 and p6 the header carries the
\* extrinsics root and the state (root) the caller passed and
\* consensus_digest 0.
ChildAsClaimed ==
    /\ ~panicked
    /\ LET h == chain[Len(chain) - 1]
           c == chain[Len(chain)] IN
       /\ c.parent = hash(hashes, Header_words(variant, h))
       /\ c.height = h.height + 1
       /\ variant = "p4" =>
             /\ c.extrinsics_root = child_args[1]
             /\ c.state = child_args[2]
             /\ c.consensus_digest = 0
       /\ variant = "p6" =>
             /\ c.extrinsics_root = child_args[1]
             /\ c.state_root = child_args[2]
             /\ c.consensus_digest = 0

\* C18 as stated: in every header variant genesis() has height 0 and parent
\* digest 0, and for every header h, h.child(...) returns a header whose
\* parent is hash(h) and whose height is h.height + 1, carrying in p4 and p6
\* the caller's extrinsics root and state (root) and consensus_digest 0.
C18_ChildOfAnyHeader ==
    /\ GenesisAtZero
    /\ ChildCalled => ChildAsClaimed

\* C18 amended: the same, for every header h whose height is below u64::MAX
\* (at u64::MAX the sum h.height + 1 overflows and is no u64).
C18_ChildBelowMaxHeight ==
    /\ GenesisAtZero
    /\ (ChildCalled /\ ChildParent.height < U64_MAX) => ChildAsClaimed

\* In p4 and in p6, child was called with a root and a state that differ from
\* the parent's on a header built by child itself, and it returned.
C18_Witness ==
    /\ ChildCalled
    /\ ~panicked
    /\ variant \in {"p4", "p6"}
    /\ Len(chain) = 3
    /\ child_args = <<2, 1>>
    /\ chain[2].extrinsics_root # chain[3].extrinsics_root
    /\ chain[3].parent = hashes[Header_words(variant, chain[2])]
    /\ chain[3].height = chain[2].height + 1

\* -------------------------------------------------------------------- C19

\* The chain was built on Block::genesis() of p4 by Block::child alone, and
\* genesis.verify_sub_chain(rest) has returned.
P4BuiltChainVerified ==
    /\ pc = "verified"
    /\ variant = "p4"
    /\ chain[1] = p4_Block_genesis
    /\ tampered = NoTamper

\* C19 as stated: in p4, for every n >= 0 and every choice of extrinsic
\* batches, the chain built by Block::genesis() and n successive
\* Block::child(extrinsics) calls satisfies genesis.verify_sub_chain(rest) =
\* true.
C19_BuiltBlocksVerify == P4BuiltChainVerified => is_verified

\* -------------------------------------------------------------------- C20

\* Some block of the chain has a header.parent that is not the hash of the
\* header of its predecessor.
SomeParentMismatch ==
    \E i \in 2..Len(chain) :
        /\ p4_words(chain[i - 1].header) \in DOMAIN hashes
        /\ chain[i].header.parent # hash(hashes, p4_words(chain[i - 1].header))

\* C20 as stated: in p4, Block::verify_sub_chain(anchor, chain) returns false
\* whenever some block of the chain has header.parent different from the
\* hash of its predecessor's header, even if heights, extrinsics roots and
\* states are all consistent.
C20_ParentMismatchFails ==
    (pc = "verified" /\ variant = "p4" /\ SomeParentMismatch) => ~is_verified

\* -------------------------------------------------------------------- C21

\* The state after the i-th block of chain: the genesis state, then each
\* body executed on the state before it, as u64 arithmetic stores it.
RECURSIVE PostState(_)
PostState(i) ==
    IF i = 1 THEN post_states[1]
    ELSE p6_execute_extrinsics(PostState(i - 1), chain[i].body).state

\* Some block of the chain declares a state_root that is not the hash of the
\* state its body makes of the state after its predecessor.
SomeStateRootMismatch ==
    \E i \in 2..Len(chain) :
        /\ state_words(PostState(i)) \in DOMAIN hashes
        /\ chain[i].header.state_root # hash(hashes, state_words(PostState(i)))

\* C21 as stated: in p6, Block::verify_sub_chain(anchor, pre_state, chain)
\* returns false whenever some block of the chain, the last one included,
\* declares a state_root different from the hash of the state obtained by
\* executing its body on its predecessor's post-state.
C21_StateRootMismatchFails ==
    (pc = "verified" /\ variant = "p6" /\ SomeStateRootMismatch) => ~is_verified

\* -------------------------------------------------------------------- C22

\* verify_sub_chain has returned on a p6 chain as genesis and child built it,
\* each child given the state after its parent.
P6BuiltChainVerified ==
    /\ pc = "verified"
    /\ variant = "p6"
    /\ tampered = NoTamper

\* C22 as stated: in p6, for every genesis state, every n >= 0 and every
\* choice of extrinsic batches, the chain built by Block::genesis(state) and
\* n successive child(pre_state, extrinsics) calls, each given the post-state
\* of its parent, satisfies genesis.verify_sub_chain(genesis_state, rest) =
\* true.
C22_BuiltRichBlocksVerify == P6BuiltChainVerified => is_verified

\* -------------------------------------------------------------------- C23

\* Some block of the chain has a body whose hash is not the extrinsics_root
\* of its header.
SomeBodyMismatch ==
    \E i \in 2..Len(chain) :
        /\ body_words(chain[i].body) \in DOMAIN hashes
        /\ chain[i].header.extrinsics_root # hash(hashes, body_words(chain[i].body))

\* Block::verify_sub_chain was called and has ended, by returning or by
\* aborting.
BlockVerifyEnded ==
    \/ pc = "verified"
    \/ pc = "aborted" /\ tampered # NoTamper

\* C23 as stated: in p4 and in p6, Block::verify_sub_chain returns false
\* whenever some block of the chain has a body whose hash differs from the
\* extrinsics_root of its header.
C23_BodyMismatchFails ==
    (BlockVerifyEnded /\ SomeBodyMismatch) => (pc = "verified" /\ ~is_verified)

\* The part of C23 that holds: a call that returns, returns false.
C23_BodyMismatchNeverVerifies ==
    (pc = "verified" /\ SomeBodyMismatch) => ~is_verified

\* -------------------------------------------------------------------- C24

\* h.verify_child(&h.child(r, s)) has returned, in p4: the headers compared
\* are a header and the child it built, as built.
P4ChildVerified ==
    /\ pc = "child verified"
    /\ variant = "p4"
    /\ tampered = NoTamper

\* C24 as stated: in p4, for every header h, every extrinsics root r and
\* every state s (s different from h.state included),
\* h.verify_child(&h.child(r, s)) returns true.
C24_ChildAlwaysVerifies == P4ChildVerified => is_verified

\* -------------------------------------------------------------------- C25

\* The header the caller holds after mining.
MinedHeader == header_to_mine(variant, chain[3])

\* C25: whenever mining returns, the header it leaves hashes strictly below
\* the threshold it was mined against: the threshold given to
\* mine_consensus_digest or mine_extra_hard, THRESHOLD for p3's child.
C25_MinedBelowThreshold ==
    pc = "mined" =>
        hash(hashes, Mine_words(variant, MinedHeader)) < mining_threshold

\* Mining has returned, in p5 against a
\* threshold that not every digest is below.
C25_Witness ==
    /\ pc = "mined"
    /\ variant # "p3" => mining_threshold < U64_MAX

\* -------------------------------------------------------------------- C26

\* The digest of the only header of the i-th candidate.
OnlyHash(i) == hash(hashes, p4_words(candidate_chains[i][1]))

\* HeaviestChainRule was given [[h2], [h1]] with hash(h1) < hash(h2).
LighterChainFirst ==
    /\ strategy = "HeaviestChainRule"
    /\ Len(candidate_chains) = 2
    /\ Len(candidate_chains[1]) = 1
    /\ Len(candidate_chains[2]) = 1
    /\ p4_words(candidate_chains[1][1]) \in DOMAIN hashes
    /\ p4_words(candidate_chains[2][1]) \in DOMAIN hashes
    /\ OnlyHash(2) < OnlyHash(1)

\* C26 as stated, for the calls that return: under HeaviestChainRule, for
\* two single-header chains [h1] and [h2] with hash(h1) < hash(h2), whatever
\* u64 the hashes are, first_chain_is_better([h2], [h1]) is false and
\* best_chain([[h2], [h1]]) returns [h1].
C26_LowerHashIsMoreWork ==
    (LighterChainFirst /\ ~panicked) =>
        /\ choice.first_called => ~choice.first_chain_is_better
        /\ choice.best_called => choice.best_chain = 2

\* -------------------------------------------------------------------- C27

\* Both functions were called on a pair of chains [A, B].
PairChosen ==
    /\ Len(candidate_chains) = 2
    /\ choice.first_called
    /\ choice.best_called

\* C27: for each of the three strategies and every pair of chains A and B,
\* best_chain([A, B]) returns A when first_chain_is_better(A, B) is true and
\* B otherwise; when one of the two calls returns, so does the other.
C27_BestOfPairIsFirstChainIsBetter ==
    PairChosen =>
        /\ ~panicked
        /\ choice.best_chain = IF choice.first_chain_is_better THEN 1 ELSE 2

\* Both functions have returned on a pair of different chains, and the
\* second of them was chosen.
C27_Witness ==
    /\ PairChosen
    /\ candidate_chains[1] # candidate_chains[2]
    /\ ~choice.first_chain_is_better
    /\ choice.best_chain = 2

\* -------------------------------------------------------------------- C28

\* The score a strategy gives a chain: its length, its work as get_work
\* computes it, the number of its headers with an even hash.
Score(chain_) ==
    CASE strategy = "LongestChainRule" -> Len(chain_)
      [] strategy = "HeaviestChainRule" -> get_work(hashes, chain_).work
      [] strategy = "MostBlocksWithEvenHash" ->
            Cardinality({i \in 1..Len(chain_) : hash(hashes, p4_words(chain_[i])) % 2 = 0})

\* The k-th candidate has the largest score, and is the first that has it.
FirstOfLargestScore(k) ==
    /\ k \in 1..Len(candidate_chains)
    /\ Len(candidate_chains) >= 2 =>
          /\ \A i \in 1..Len(candidate_chains) :
                Score(candidate_chains[k]) >= Score(candidate_chains[i])
          /\ \A i \in 1..(k - 1) :
                Score(candidate_chains[i]) < Score(candidate_chains[k])

\* C28 as stated: for each of the three strategies and every non-empty list
\* of candidates, best_chain returns one of the candidates, of a score at
\* least that of every candidate, and the first of those of largest score.
C28_BestIsFirstOfLargestScore ==
    choice.best_called => FirstOfLargestScore(choice.best_chain)

\* The part of C28 that holds: a call that returns, returns the first
\* candidate of the largest score as the strategy computes it.
C28_ReturnedIsFirstOfLargestScore ==
    (choice.best_called /\ choice.best_chain # 0) =>
        FirstOfLargestScore(choice.best_chain)

\* -------------------------------------------------------------------- C29

\* LongestChainRule::first_chain_is_better(a, b) has returned.
LongestCompared ==
    /\ strategy = "LongestChainRule"
    /\ choice.first_called

\* C29: LongestChainRule::first_chain_is_better(a, b) is true exactly when a
\* has at least as many headers as b.
C29_LongestIsAtLeastAsLong ==
    LongestCompared =>
        (choice.first_chain_is_better
            <=> Len(candidate_chains[1]) >= Len(candidate_chains[2]))

\* Two chains of equal length were compared, and the first was kept.
C29_Witness ==
    /\ LongestCompared
    /\ candidate_chains[1] # candidate_chains[2]
    /\ Len(candidate_chains[1]) = Len(candidate_chains[2])
    /\ choice.first_chain_is_better

\* -------------------------------------------------------------------- C30

\* The number of headers of a chain whose hash is even.
EvenHashes(chain_) ==
    Cardinality({i \in 1..Len(chain_) : hash(hashes, p4_words(chain_[i])) % 2 = 0})

\* MostBlocksWithEvenHash::first_chain_is_better(a, b) has returned.
EvenHashCompared ==
    /\ strategy = "MostBlocksWithEvenHash"
    /\ choice.first_called

\* C30: MostBlocksWithEvenHash::first_chain_is_better(a, b) is true exactly
\* when a has at least as many headers of even hash as b, whatever the
\* lengths of the chains.
C30_EvenHashIsAtLeastAsMany ==
    EvenHashCompared =>
        (choice.first_chain_is_better
            <=> EvenHashes(candidate_chains[1]) >= EvenHashes(candidate_chains[2]))

\* The shorter chain was kept for its even hashes.
C30_Witness ==
    /\ EvenHashCompared
    /\ Len(candidate_chains[1]) < Len(candidate_chains[2])
    /\ EvenHashes(candidate_chains[1]) > EvenHashes(candidate_chains[2])
    /\ choice.first_chain_is_better

\* -------------------------------------------------------------------- C31

\* The amount a register of keys spells in decimal, most significant digit
\* first: a number, whatever a u64 can hold.
RECURSIVE Decimal(_)
Decimal(keystroke_register) ==
    IF keystroke_register = <<>> THEN 0
    ELSE Decimal(SubSeq(keystroke_register, 1, Len(keystroke_register) - 1)) * 10
            + digit_value(keystroke_register[Len(keystroke_register)])

\* A call of Atm::next_state was made with this action.
AtmCalled(t) == pc \in {"returned", "aborted"} /\ transition = t

EnterWhileAuthenticated ==
    AtmCalled(PressKey("Enter")) /\ starting_state.expected_pin_hash = Authenticated

\* C31: PressKey(Enter) while Authenticated, the register spelling the
\* amount a, returns an ATM whose cash_inside is a less when a <= cash_inside
\* and the same when a > cash_inside, which is Waiting and whose register is
\* empty.
C31_EnterWithdrawsTheAmount ==
    EnterWhileAuthenticated =>
        LET a == Decimal(starting_state.keystroke_register) IN
        /\ pc = "returned"
        /\ new_state.cash_inside =
              IF a <= starting_state.cash_inside
              THEN starting_state.cash_inside - a
              ELSE starting_state.cash_inside
        /\ new_state.expected_pin_hash = Waiting
        /\ new_state.keystroke_register = <<>>

\* What holds of it: the claim for the amounts a u64 can hold.
C31_EnterWithdrawsAmountInRange ==
    (EnterWhileAuthenticated /\ Decimal(starting_state.keystroke_register) <= ATM_U64_MAX)
        => C31_EnterWithdrawsTheAmount

\* -------------------------------------------------------------------- C32

EnterWhileAuthenticating ==
    /\ AtmCalled(PressKey("Enter"))
    /\ starting_state.expected_pin_hash.status = "Authenticating"

\* C32: PressKey(Enter) while Authenticating(p) returns an ATM that is
\* Authenticated if the register hashes to p and Waiting if it does not; its
\* register is empty and its cash_inside is that of the starting state.
C32_EnterChecksThePin ==
    EnterWhileAuthenticating =>
        /\ pc = "returned"
        /\ new_state.expected_pin_hash =
              IF hash(hashes, register_words(starting_state.keystroke_register))
                    = starting_state.expected_pin_hash.pin_hash
              THEN Authenticated ELSE Waiting
        /\ new_state.keystroke_register = <<>>
        /\ new_state.cash_inside = starting_state.cash_inside

\* A pin of two keys was entered and did not hash to the card's pin hash.
C32_Witness ==
    /\ EnterWhileAuthenticating
    /\ Len(starting_state.keystroke_register) = 2
    /\ starting_state.cash_inside > 0
    /\ hash(hashes, register_words(starting_state.keystroke_register))
          # starting_state.expected_pin_hash.pin_hash
    /\ new_state.expected_pin_hash = Waiting

\* -------------------------------------------------------------------- C33

\* The call was out of turn: a card swiped while one is in use, or a key
\* pressed before any card.
OutOfTurn ==
    /\ pc \in {"returned", "aborted"}
    /\ \/ /\ transition.kind = "SwipeCard"
          /\ starting_state.expected_pin_hash.status \in {"Authenticating", "Authenticated"}
       \/ /\ transition.kind = "PressKey"
          /\ starting_state.expected_pin_hash = Waiting

SwipeWhileWaiting ==
    /\ pc \in {"returned", "aborted"}
    /\ transition.kind = "SwipeCard"
    /\ starting_state.expected_pin_hash = Waiting

\* C33: an out-of-turn action returns the starting state; SwipeCard(p) while
\* Waiting returns the starting state with the status Authenticating(p).
C33_OutOfTurnChangesNothing ==
    /\ OutOfTurn => (pc = "returned" /\ new_state = starting_state)
    /\ SwipeWhileWaiting =>
          /\ pc = "returned"
          /\ new_state =
                Atm(starting_state.cash_inside,
                    Authenticating(transition.pin_hash),
                    starting_state.keystroke_register)

\* A second card was swiped after keys of the first one's pin.
C33_Witness ==
    /\ OutOfTurn
    /\ transition.kind = "SwipeCard"
    /\ starting_state.expected_pin_hash.status = "Authenticating"
    /\ transition.pin_hash # starting_state.expected_pin_hash.pin_hash
    /\ starting_state.keystroke_register # <<>>

\* -------------------------------------------------------------------- C34

\* What an account holds: nothing when it is not in the map.
BalanceOf(balances, user) == IF user \in DOMAIN balances THEN balances[user] ELSE 0

\* The sum of all balances.
TotalSupply(balances) ==
    BalanceOf(balances, "Alice") + BalanceOf(balances, "Bob") + BalanceOf(balances, "Charlie")

AccountingTransferCalled ==
    pc \in {"returned", "aborted"} /\ transition.kind = "Transfer"

\* C34: a Transfer returns balances whose sum is that of the starting
\* balances; when it returns other balances than it was given, the sender
\* holds amount less and the receiver amount more.
C34_TransferMovesTheAmount ==
    AccountingTransferCalled =>
        /\ pc = "returned"
        /\ TotalSupply(new_state) = TotalSupply(starting_state)
        /\ new_state # starting_state =>
              /\ BalanceOf(new_state, transition.sender)
                    = BalanceOf(starting_state, transition.sender) - transition.amount
              /\ BalanceOf(new_state, transition.receiver)
                    = BalanceOf(starting_state, transition.receiver) + transition.amount

\* -------------------------------------------------------------------- C35

\* C35: in the balances reached from the empty map by Mint, Burn and
\* Transfer, every account present holds more than 0.
C35_NoAccountHoldsZero ==
    \A user \in DOMAIN new_state : new_state[user] # 0

\* -------------------------------------------------------------------- C36

\* The i-th header of chain is not one higher than the header before it.
HeightNotNext(i) == chain[i].height # chain[i - 1].height + 1

\* The pairs of parent and child whose heights the call made has tested: all
\* of the chain for p1's verify_sub_chain, the last one for verify_child.
HeightTested(i) ==
    \/ pc = "verified" /\ variant = "p1" /\ i \in 2..Len(chain)
    \/ pc = "child verified" /\ i = Len(chain)

\* C36: p1's verify_sub_chain and the verify_child of p4 and p6 return false
\* whenever a child's height is not its parent's height plus one, a parent
\* at u64::MAX included: whatever the height of its child, it is refused.
C36_HeightNotNextIsRefused ==
    \A i \in 2..Len(chain) : (HeightTested(i) /\ HeightNotNext(i)) => ~is_verified

\* What holds of it: the claim for the parents below u64::MAX.
C36_HeightNotNextIsRefusedBelowMax ==
    \A i \in 2..Len(chain) :
       (HeightTested(i) /\ HeightNotNext(i) /\ chain[i - 1].height < U64_MAX)
           => ~is_verified

\* -------------------------------------------------------------------- C37

\* The term get_work forms for a header, THRESHOLD - hash(header) on the two
\* casts, as a number.
WorkTerm(header) == as_i64(p5_THRESHOLD) - as_i64(hash(hashes, p4_words(header)))

\* HeaviestChainRule::first_chain_is_better was called: get_work has run on
\* the first two candidates.
WorkComputed == strategy = "HeaviestChainRule" /\ choice.first_called

\* C37: when get_work has run on a chain, the term of every header of it is
\* an i64, and the call that ran it did not abort.
C37_WorkTermsStayInRange ==
    WorkComputed =>
        /\ ~panicked
        /\ \A k \in 1..2 : \A j \in 1..Len(candidate_chains[k]) :
              ~i64_overflows(WorkTerm(candidate_chains[k][j]))

\* -------------------------------------------------------------------- C38

\* The header mining was called on (p5), or the parent child was called on
\* (p3).
GivenHeader == header_to_mine(variant, chain[1])

\* p5: the mined header is the given one in every field but the digest.
C38_OtherFieldsKept ==
    /\ MinedHeader.parent = GivenHeader.parent
    /\ MinedHeader.height = GivenHeader.height
    /\ MinedHeader.extrinsics_root = GivenHeader.extrinsics_root
    /\ MinedHeader.state = GivenHeader.state

\* p3: the child returned is the one the claim describes.
C38_ChildAsDescribed ==
    /\ MinedHeader.parent = hash(hashes, p3_words(GivenHeader))
    /\ MinedHeader.height = GivenHeader.height + 1
    /\ MinedHeader.extrinsic = child_args[1]
    /\ MinedHeader.state = GivenHeader.state + child_args[1]

\* The height and the state the claim gives the child are u64 values.
C38_ChildInRange ==
    /\ GivenHeader.height < U64_MAX
    /\ GivenHeader.state + child_args[1] <= U64_MAX

\* C38 as stated: when mine_consensus_digest returns, the header has the
\* parent, height, extrinsics_root and state it had before; when p3's child
\* returns, its header has parent = hash(self), height = self.height + 1,
\* the extrinsic given and state = self.state + extrinsic, whatever the
\* nonce.
C38_MiningChangesOnlyTheDigest ==
    pc = "mined" =>
        IF variant = "p3" THEN C38_ChildAsDescribed ELSE C38_OtherFieldsKept

\* C38, amended: the same, for p3's child when self.height + 1 and
\* self.state + extrinsic are u64 values.
C38_MiningChangesOnlyTheDigestInRange ==
    pc = "mined" =>
        IF variant = "p3" THEN C38_ChildInRange => C38_ChildAsDescribed
        ELSE C38_OtherFieldsKept

\* p3's child has returned a header with a nonce other than the default
\* digest, on a parent and an extrinsic that change the height and the state.
C38_Witness ==
    /\ pc = "mined"
    /\ variant = "p3"
    /\ C38_ChildInRange
    /\ child_args[1] > 0
    /\ MinedHeader.consensus_digest # 0

\* -------------------------------------------------------------------- C39

\* The digest of the header being mined, with this nonce.
DigestWith(nonce) == hash(hashes, Mine_words(variant, with_nonce(chain[2], nonce)))

\* The loop is running, and some nonce of the generated range gives the
\* header a hash below the threshold.
MiningCanEnd ==
    /\ pc = "mining"
    /\ \E nonce \in Nonces : DigestWith(nonce) < mining_threshold

\* The call has returned with a nonce of the range that gives the header a
\* hash below the threshold.
ReturnedWithMiningNonce ==
    /\ MinedHeader.consensus_digest \in Nonces
    /\ DigestWith(MinedHeader.consensus_digest) < mining_threshold
    /\ chain[2].consensus_digest = MinedHeader.consensus_digest

\* C39: when nonces are selected fairly, a mining loop for which some nonce
\* of the range 0..u32::MAX gives a hash below the threshold returns at some
\* time; and whenever the loop has returned, such a nonce is in
\* consensus_digest.
C39_MiningReturns ==
    /\ MiningCanEnd ~> (pc = "mined")
    /\ [](pc = "mined" => ReturnedWithMiningNonce)

\* Mining has returned although one nonce of the range does not mine the
\* header.
C39_Witness ==
    /\ pc = "mined"
    /\ ReturnedWithMiningNonce
    /\ \E nonce \in Nonces :
          /\ Mine_words(variant, with_nonce(chain[2], nonce)) \in DOMAIN hashes
          /\ DigestWith(nonce) >= mining_threshold

\* -------------------------------------------------------------------- C40

\* One step of a session, from the ATM held before the action to the one
\* held after it.
CashLeaves == new_state'.cash_inside < new_state.cash_inside

BecomesAuthenticated ==
    new_state'.expected_pin_hash = Authenticated /\ new_state.expected_pin_hash # Authenticated

CardAccepted ==
    /\ new_state'.expected_pin_hash.status = "Authenticating"
    /\ new_state'.expected_pin_hash # new_state.expected_pin_hash

C40_Step ==
    /\ new_state'.cash_inside <= new_state.cash_inside
    /\ CashLeaves =>
          /\ transition' = PressKey("Enter")
          /\ new_state.expected_pin_hash = Authenticated
    /\ BecomesAuthenticated =>
          /\ transition' = PressKey("Enter")
          /\ new_state.expected_pin_hash.status = "Authenticating"
          /\ hash(hashes', register_words(new_state.keystroke_register))
                = new_state.expected_pin_hash.pin_hash
    /\ CardAccepted =>
          /\ new_state.expected_pin_hash = Waiting
          /\ transition' = SwipeCard(new_state'.expected_pin_hash.pin_hash)

\* C40: in a session that starts Waiting with an empty register, no action
\* raises cash_inside and only PressKey(Enter) while Authenticated lowers it;
\* the ATM becomes Authenticated only by PressKey(Enter) on a register that
\* hashes to the pin hash it holds, and it holds a pin hash only from the
\* SwipeCard it accepted last, while Waiting.
C40_CashLeavesOnlyAfterCardAndPin == [][C40_Step]_vars

\* Cash has left the ATM: a withdrawal after a card and its pin.
C40_Witness ==
    /\ AtmCalled(PressKey("Enter"))
    /\ starting_state.expected_pin_hash = Authenticated
    /\ new_state.cash_inside < starting_state.cash_inside
    /\ new_state.cash_inside < 2

====
